---- MODULE Spec2Model ----
(***************************************************************************)
(* State-machine model of y-better-sqlite3 (src/src/y-better-sqlite3.ts):  *)
(* a SQLite-backed update log for Yjs documents with snapshot compaction,  *)
(* per-document partitions in shared or per-document database files, and a *)
(* small key/value table.                                                  *)
(*                                                                         *)
(* A Yjs document is modelled by the set of change atoms it contains; an   *)
(* update is a set of atoms, Y.applyUpdate is set union (idempotent,       *)
(* commutative) and Y.encodeStateAsUpdate is the whole set.                *)
(***************************************************************************)
EXTENDS Integers, Sequences, FiniteSets, TLC

(* ------------------------------ bounds --------------------------------- *)
\* The compaction threshold, scaled down from the exported 500.
TrimSize == 2
\* Number of row ids handed out by the existing database files together.
MaxId == 3
\* Number of distinct change atoms the documents may create.
MaxAtoms == 2
\* Number of constructor calls (sessions created) in one behaviour.
MaxAttach == 2

(* --------------------------- input domains ----------------------------- *)
Sessions == {"s1", "s2"}
Docs == {"A", "B"}
SharedPath == "shared.sqlite"
Keys == {"k"}

\* The `options` argument of the constructor: which of dir / dbPath is set.
OptionSets ==
  { [dir |-> TRUE, dbPath |-> FALSE],
    [dir |-> FALSE, dbPath |-> TRUE],
    [dir |-> TRUE, dbPath |-> TRUE] }

\* path.join(dir, `${name}.sqlite`)
DirPath(name) == IF name = "A" THEN "dir/A.sqlite" ELSE "dir/B.sqlite"
\* `${name}.sqlite`
CwdPath(name) == IF name = "A" THEN "A.sqlite" ELSE "B.sqlite"

Paths == {SharedPath} \cup {DirPath(n) : n \in Docs} \cup {CwdPath(n) : n \in Docs}
Partitions == Paths \X Docs

PREFERRED_TRIM_SIZE == TrimSize

(* ------------------------------- state --------------------------------- *)
VARIABLES
  sess,      \* session slot -> the fields of the SqlitePersistence object
  doc,       \* session slot -> content of the Y.Doc handed to the constructor
  files,     \* set of database files that exist
  updates,   \* path -> rows of table `updates`
  seq,       \* path -> AUTOINCREMENT high-water mark of table `updates`
  custom,    \* path -> rows of table `custom`
  nextAtom,  \* number of change atoms created so far
  nAttach,   \* number of constructor calls so far
  hFresh,    \* history: session -> "changed" once it has made a local change,
             \* "fetched" once it then ran fetchUpdates with no change since
  hSnaps,    \* history: partition -> initial snapshots written to it (counted up to 2)
  hScn,      \* history: partition -> the edits made in the open/edit/close scenario
  hErased,   \* history: the last operation that erased storage
  tx         \* the `compact` transaction in progress, if any

vars == <<sess, doc, files, updates, seq, custom, nextAtom, nAttach,
          hFresh, hSnaps, hScn, hErased, tx>>

\* A slot on which no constructor has run.
NoSession ==
  [ obj |-> FALSE, threw |-> FALSE, name |-> "A", dbPath |-> SharedPath,
    isSharedDb |-> FALSE, db |-> FALSE, synced |-> FALSE, dbref |-> 0,
    dbsize |-> 0, destroyed |-> FALSE, storeTimeoutId |-> "null",
    listening |-> FALSE, initPending |-> FALSE, clearData |-> "idle",
    emits |-> 0,    \* "synced" notifications raised so far (counted up to 2)
    timers |-> 0 ]  \* setTimeout callbacks of this session still pending

\* No transaction is open.
NoTx == [stage |-> "idle", s |-> "s1", path |-> SharedPath, before |-> {}, seq0 |-> 0,
         newId |-> 0]

\* hScn[q].on: so far the partition has only seen sessions being opened and
\* closed, changes made by synced sessions, manual fetches and timer firings;
\* n: the number of those changes; fired: a debounce timer has fired.
ScnStart == [on |-> TRUE, n |-> 0, fired |-> FALSE]
ScnOff == [on |-> FALSE, n |-> 0, fired |-> FALSE]

Init ==
  /\ sess = [s \in Sessions |-> NoSession]
  /\ doc = [s \in Sessions |-> {}]
  /\ files = {}
  /\ updates = [p \in Paths |-> {}]
  /\ seq = [p \in Paths |-> 0]
  /\ custom = [p \in Paths |-> {}]
  /\ nextAtom = 0
  /\ nAttach = 0
  /\ hFresh = [s \in Sessions |-> "none"]
  /\ hSnaps = [q \in Partitions |-> 0]
  /\ hScn = [q \in Partitions |-> ScnStart]
  /\ hErased = "none"
  /\ tx = NoTx

(* --------------------------- document model ---------------------------- *)
encodeStateAsUpdate(d) == d
applyUpdate(d, update) == d \cup update

(* ----------------------------- row store ------------------------------- *)
\* SELECT ... FROM updates WHERE docName = ?
RowsOf(U, path, name) == {r \in U[path] : r.docName = name}
\* SELECT COUNT(*) as count FROM updates WHERE docName = ?
CountRows(U, path, name) == Cardinality(RowsOf(U, path, name))

RECURSIVE OrderById(_)
OrderById(S) ==
  IF S = {} THEN <<>>
  ELSE LET r == CHOOSE x \in S : \A y \in S : x.id <= y.id
       IN <<r>> \o OrderById(S \ {r})

\* SELECT id, data FROM updates WHERE docName = ? AND id > ? ORDER BY id
ScanSince(U, path, name, ref) ==
  OrderById({r \in RowsOf(U, path, name) : r.id > ref})

\* Bug variant of InsertRow: the id column is declared without AUTOINCREMENT,
\* so a new row gets the largest id present in the table plus one.
InsertRowMaxRowid(U, Q, path, name, data) ==
  LET ids == {r.id : r \in U[path]}
      id == IF ids = {} THEN 1 ELSE (CHOOSE m \in ids : \A i \in ids : i <= m) + 1
  IN [ U |-> [U EXCEPT ![path] = @ \cup {[id |-> id, docName |-> name, data |-> data]}],
       Q |-> [Q EXCEPT ![path] = id],
       lastInsertRowid |-> id ]

\* INSERT INTO updates (docName, data) VALUES (?, ?)
InsertRow(U, Q, path, name, data) ==
  [ U |-> [U EXCEPT ![path] = @ \cup {[id |-> Q[path] + 1, docName |-> name, data |-> data]}],
    Q |-> [Q EXCEPT ![path] = @ + 1],
    lastInsertRowid |-> Q[path] + 1 ]

\* Bug variant of DeleteBefore: the DELETE of the compaction has no docName filter.
DeleteBeforeAllDocs(U, path, name, id) ==
  [U EXCEPT ![path] = {r \in @ : ~(r.id < id)}]

\* DELETE FROM updates WHERE docName = ? AND id < ?
DeleteBefore(U, path, name, id) ==
  [U EXCEPT ![path] = {r \in @ : ~(r.docName = name /\ r.id < id)}]

\* DELETE FROM updates WHERE docName = ?
DeleteUpdates(U, path, name) ==
  [U EXCEPT ![path] = {r \in @ : r.docName # name}]

\* DELETE FROM custom WHERE docName = ?
DeleteCustom(C, path, name) ==
  [C EXCEPT ![path] = {e \in @ : e.docName # name}]

\* Y.transact(doc, () => { for (const row of rows) Y.applyUpdate(...) })
RECURSIVE ApplyRows(_, _)
ApplyRows(d, rows) ==
  IF rows = <<>> THEN d
  ELSE ApplyRows(applyUpdate(d, Head(rows).data), Tail(rows))

\* The document obtained by replaying a partition into an empty Y.Doc.
Replay(U, path, name) == ApplyRows({}, ScanSince(U, path, name, 0))

Part(p) == <<p.dbPath, p.name>>

(* ------------------------- metadata encoding --------------------------- *)
\* JavaScript values handed to set(): a string and a number.
Values == { [type |-> "string", text |-> "hello"], [type |-> "number", text |-> "42"] }

\* JSON.stringify(value)
JSONstringify(v) ==
  IF v.type = "string"
  THEN (CASE v.text = "hello" -> "\"hello\"" [] v.text = "42" -> "\"42\"" [] OTHER -> "\"?\"")
  ELSE IF v.text = "NaN" THEN "null" ELSE v.text

\* try { return JSON.parse(row.value) } catch { return row.value }
JSONparseOrRaw(text) ==
  CASE text = "\"hello\"" -> [type |-> "string", text |-> "hello"]
    [] text = "\"42\"" -> [type |-> "string", text |-> "42"]
    [] text = "42" -> [type |-> "number", text |-> "42"]
    [] text = "null" -> [type |-> "null", text |-> "null"]
    [] OTHER -> [type |-> "string", text |-> text]

Undefined == [type |-> "undefined", text |-> ""]

\* null, what JSON.parse("null") returns.
Null == [type |-> "null", text |-> "null"]

\* The number NaN, which JSON.stringify writes as null.
NaN == [type |-> "number", text |-> "NaN"]

\* Values handed to set() (`value: any`): those of Values, a string that
\* reads as a number, and NaN.
AnyValues == Values \cup {[type |-> "string", text |-> "42"], NaN}

(* ---------------------------- _storeUpdate ----------------------------- *)
\* clearTimeout(id): a pending timeout is removed, any other id is ignored.
clearTimeout(p) ==
  IF p.storeTimeoutId = "armed" /\ p.timers > 0
  THEN [p EXCEPT !.timers = @ - 1, !.storeTimeoutId = "cleared"]
  ELSE p

\* this._storeTimeoutId = setTimeout(...): one more pending timeout.
setTimeout(p) ==
  [p EXCEPT !.timers = IF @ < 2 THEN @ + 1 ELSE @, !.storeTimeoutId = "armed"]

\* Bug variant of storeUpdate: at the threshold the update only schedules the
\* compaction and is not inserted.
storeUpdateDropAtThreshold(p, U, Q, update, originIsThis) ==
  IF p.db /\ ~originIsThis /\ ~p.destroyed
  THEN LET ins == InsertRow(U, Q, p.dbPath, p.name, update)
           p1 == [p EXCEPT !.dbsize = @ + 1]
       IN IF p1.dbsize >= PREFERRED_TRIM_SIZE
          THEN [ p |-> setTimeout(IF p1.storeTimeoutId # "null" THEN clearTimeout(p1) ELSE p1),
                 U |-> U, Q |-> Q, stored |-> FALSE ]
          ELSE [p |-> p1, U |-> ins.U, Q |-> ins.Q, stored |-> TRUE]
  ELSE [p |-> p, U |-> U, Q |-> Q, stored |-> FALSE]

\* Bug variant of storeUpdate: the pending timeout is not cancelled before a
\* new one is set.
storeUpdateNoCancel(p, U, Q, update, originIsThis) ==
  IF p.db /\ ~originIsThis /\ ~p.destroyed
  THEN LET ins == InsertRow(U, Q, p.dbPath, p.name, update)
           p1 == [p EXCEPT !.dbsize = @ + 1]
       IN [ p |-> IF p1.dbsize >= PREFERRED_TRIM_SIZE THEN setTimeout(p1) ELSE p1,
            U |-> ins.U, Q |-> ins.Q, stored |-> TRUE ]
  ELSE [p |-> p, U |-> U, Q |-> Q, stored |-> FALSE]

\* Bug variant of storeUpdate: the origin of the change is not looked at.
storeUpdateAnyOrigin(p, U, Q, update, originIsThis) ==
  IF p.db /\ ~p.destroyed
  THEN LET ins == InsertRow(U, Q, p.dbPath, p.name, update)
           p1 == [p EXCEPT !.dbsize = @ + 1]
       IN [ p |-> IF p1.dbsize >= PREFERRED_TRIM_SIZE
                  THEN setTimeout(IF p1.storeTimeoutId # "null" THEN clearTimeout(p1) ELSE p1)
                  ELSE p1,
            U |-> ins.U, Q |-> ins.Q, stored |-> TRUE ]
  ELSE [p |-> p, U |-> U, Q |-> Q, stored |-> FALSE]

\* Bug variant of storeUpdate: a timeout is only set when _storeTimeoutId is
\* null (a compaction counts as scheduled while the field holds an id).
storeUpdateArmOnce(p, U, Q, update, originIsThis) ==
  IF p.db /\ ~originIsThis /\ ~p.destroyed
  THEN LET ins == InsertRow(U, Q, p.dbPath, p.name, update)
           p1 == [p EXCEPT !.dbsize = @ + 1]
       IN [ p |-> IF p1.dbsize >= PREFERRED_TRIM_SIZE /\ p1.storeTimeoutId = "null"
                  THEN setTimeout(p1)
                  ELSE p1,
            U |-> ins.U, Q |-> ins.Q, stored |-> TRUE ]
  ELSE [p |-> p, U |-> U, Q |-> Q, stored |-> FALSE]

\* Bug variant of storeUpdate: updates emitted before the session is synced
\* are not stored.
storeUpdateSyncedOnly(p, U, Q, update, originIsThis) ==
  IF p.db /\ ~originIsThis /\ ~p.destroyed /\ p.synced
  THEN LET ins == InsertRow(U, Q, p.dbPath, p.name, update)
           p1 == [p EXCEPT !.dbsize = @ + 1]
       IN [ p |-> IF p1.dbsize >= PREFERRED_TRIM_SIZE
                  THEN setTimeout(IF p1.storeTimeoutId # "null" THEN clearTimeout(p1) ELSE p1)
                  ELSE p1,
            U |-> ins.U, Q |-> ins.Q, stored |-> TRUE ]
  ELSE [p |-> p, U |-> U, Q |-> Q, stored |-> FALSE]

\* Bug variant of storeUpdate: after the INSERT the session moves _dbref to
\* the id of the row it wrote.
storeUpdateAdvancesCursor(p, U, Q, update, originIsThis) ==
  IF p.db /\ ~originIsThis /\ ~p.destroyed
  THEN LET ins == InsertRow(U, Q, p.dbPath, p.name, update)
           p1 == [p EXCEPT !.dbsize = @ + 1, !.dbref = ins.lastInsertRowid]
       IN [ p |-> IF p1.dbsize >= PREFERRED_TRIM_SIZE
                  THEN setTimeout(IF p1.storeTimeoutId # "null" THEN clearTimeout(p1) ELSE p1)
                  ELSE p1,
            U |-> ins.U, Q |-> ins.Q, stored |-> TRUE ]
  ELSE [p |-> p, U |-> U, Q |-> Q, stored |-> FALSE]

\* The document's "update" listener. originIsThis: origin === this.
storeUpdate(p, U, Q, update, originIsThis) ==
  IF p.db /\ ~originIsThis /\ ~p.destroyed
  THEN LET ins == InsertRow(U, Q, p.dbPath, p.name, update)
           p1 == [p EXCEPT !.dbsize = @ + 1]
       IN [ p |-> IF p1.dbsize >= PREFERRED_TRIM_SIZE
                  THEN setTimeout(IF p1.storeTimeoutId # "null" THEN clearTimeout(p1) ELSE p1)
                  ELSE p1,
            U |-> ins.U, Q |-> ins.Q, stored |-> TRUE ]
  ELSE [p |-> p, U |-> U, Q |-> Q, stored |-> FALSE]

(* --------------------------- fetchUpdates ------------------------------ *)
\* Bug variant of StoreIsEmpty: the snapshot is written on every initialization.
StoreIsEmptyAlways(count) == TRUE

\* `if (count === 0)`: the initial snapshot is written only into an empty partition.
StoreIsEmpty(count) == count = 0

\* Bug variant of beforeApplyUpdatesCallback: the snapshot is only written by
\* a session that is already synced, so never at initialization.
beforeApplyUpdatesCallbackSynced(p, d, U, Q) ==
  IF p.db /\ ~p.destroyed /\ p.synced
  THEN LET ins == InsertRow(U, Q, p.dbPath, p.name, encodeStateAsUpdate(d))
       IN [U |-> ins.U, Q |-> ins.Q, wrote |-> TRUE]
  ELSE [U |-> U, Q |-> Q, wrote |-> FALSE]

\* _initialize's beforeApplyUpdatesCallback: write the initial snapshot.
beforeApplyUpdatesCallback(p, d, U, Q) ==
  IF p.db /\ ~p.destroyed
  THEN LET ins == InsertRow(U, Q, p.dbPath, p.name, encodeStateAsUpdate(d))
       IN [U |-> ins.U, Q |-> ins.Q, wrote |-> TRUE]
  ELSE [U |-> U, Q |-> Q, wrote |-> FALSE]

\* _initialize's afterApplyUpdatesCallback: become synced (and emit "synced").
afterApplyUpdatesCallback(p) ==
  IF p.destroyed THEN p
  ELSE [p EXCEPT !.synced = TRUE, !.emits = IF @ < 2 THEN @ + 1 ELSE @]

\* The "update" notification the document raises at the end of the replay
\* transaction, whose origin is the session itself: _storeUpdate is called
\* when the transaction changed the document and the listener is registered.
replayNotification(p, d, d1, U, Q) ==
  IF p.listening /\ d1 # d
  THEN storeUpdate(p, U, Q, d1 \ d, TRUE)
  ELSE [p |-> p, U |-> U, Q |-> Q, stored |-> FALSE]

\* Bug variant of hookEvents: the after callback is called before the replay.
hookEventsAfterFirst(fired, n) ==
  (IF fired THEN <<"before">> ELSE <<>>) \o <<"after">> \o [i \in 1..n |-> "apply"]

\* The calls fetchUpdates makes, in the order of its statements.
hookEvents(fired, n) ==
  (IF fired THEN <<"before">> ELSE <<>>) \o [i \in 1..n |-> "apply"] \o <<"after">>

\* Bug variant of fetchFinish: every fetchUpdates call runs the after callback
\* of _initialize.
fetchFinishAlwaysSynced(n, d1, rows, hooks, wrote, fired) ==
  LET p1 == afterApplyUpdatesCallback(n.p)
      p2 == IF Len(rows) > 0 THEN [p1 EXCEPT !.dbref = rows[Len(rows)].id] ELSE p1
      p3 == [p2 EXCEPT !.dbsize = CountRows(n.U, n.p.dbPath, n.p.name)]
  IN [p |-> p3, d |-> d1, U |-> n.U, Q |-> n.Q, ran |-> TRUE, wrote |-> wrote,
      applied |-> Len(rows), events |-> hookEvents(fired, Len(rows))]

\* Bug variant of fetchFinish: the compaction timeout is also set when the
\* refreshed _dbsize is at or above the threshold.
fetchFinishArmsTimer(n, d1, rows, hooks, wrote, fired) ==
  LET p1 == IF hooks = "init" THEN afterApplyUpdatesCallback(n.p) ELSE n.p
      p2 == IF Len(rows) > 0 THEN [p1 EXCEPT !.dbref = rows[Len(rows)].id] ELSE p1
      p3 == [p2 EXCEPT !.dbsize = CountRows(n.U, n.p.dbPath, n.p.name)]
      p4 == IF p3.dbsize >= PREFERRED_TRIM_SIZE
            THEN setTimeout(IF p3.storeTimeoutId # "null" THEN clearTimeout(p3) ELSE p3)
            ELSE p3
  IN [p |-> p4, d |-> d1, U |-> n.U, Q |-> n.Q, ran |-> TRUE, wrote |-> wrote,
      applied |-> Len(rows), events |-> hookEvents(fired, Len(rows))]

\* Bug variant of fetchFinish: _dbref is not advanced to the last row read.
fetchFinishKeepsCursor(n, d1, rows, hooks, wrote, fired) ==
  LET p1 == IF hooks = "init" THEN afterApplyUpdatesCallback(n.p) ELSE n.p
      p3 == [p1 EXCEPT !.dbsize = CountRows(n.U, n.p.dbPath, n.p.name)]
  IN [p |-> p3, d |-> d1, U |-> n.U, Q |-> n.Q, ran |-> TRUE, wrote |-> wrote,
      applied |-> Len(rows), events |-> hookEvents(fired, Len(rows))]

\* The rest of fetchUpdates after the replay transaction: the after callback,
\* the new _dbref and the refreshed _dbsize. n: the outcome of the replay's
\* notification, d1: the document after the replay.
fetchFinish(n, d1, rows, hooks, wrote, fired) ==
  LET p1 == IF hooks = "init" THEN afterApplyUpdatesCallback(n.p) ELSE n.p
      p2 == IF Len(rows) > 0 THEN [p1 EXCEPT !.dbref = rows[Len(rows)].id] ELSE p1
      p3 == [p2 EXCEPT !.dbsize = CountRows(n.U, n.p.dbPath, n.p.name)]
  IN [p |-> p3, d |-> d1, U |-> n.U, Q |-> n.Q, ran |-> TRUE, wrote |-> wrote,
      applied |-> Len(rows), events |-> hookEvents(fired, Len(rows))]

\* fetchUpdates(persistence, before, after); hooks = "init" for the callbacks
\* of _initialize, "default" for the empty default callbacks.
fetchUpdates(p, d, U, Q, hooks) ==
  IF p.destroyed \/ ~p.db
  THEN [p |-> p, d |-> d, U |-> U, Q |-> Q, ran |-> FALSE, wrote |-> FALSE, applied |-> 0,
        events |-> <<>>]
  ELSE
    LET count == CountRows(U, p.dbPath, p.name)
        rows == ScanSince(U, p.dbPath, p.name, p.dbref)
        b == IF StoreIsEmpty(count) /\ hooks = "init"
             THEN beforeApplyUpdatesCallback(p, d, U, Q)
             ELSE [U |-> U, Q |-> Q, wrote |-> FALSE]
        d1 == ApplyRows(d, rows)
    IN fetchFinish(replayNotification(p, d, d1, b.U, b.Q), d1, rows, hooks, b.wrote,
                   StoreIsEmpty(count))

(* ----------------------------- storeState ------------------------------ *)
\* Bug variant of compact: the full state is written into the partition's
\* oldest row (UPDATE in place) and the other rows are deleted; a new row is
\* inserted only into an empty partition.
compactInPlace(p, d, U, Q) ==
  LET rows == RowsOf(U, p.dbPath, p.name)
  IN IF rows = {}
     THEN LET ins == InsertRow(U, Q, p.dbPath, p.name, encodeStateAsUpdate(d))
          IN [U |-> ins.U, Q |-> ins.Q]
     ELSE LET first == CHOOSE r \in rows : \A o \in rows : r.id <= o.id
          IN [U |-> [U EXCEPT ![p.dbPath] =
                       (@ \ rows) \cup {[first EXCEPT !.data = encodeStateAsUpdate(d)]}],
              Q |-> Q]

\* The `compact` transaction: insert the full state, delete the older rows.
compact(p, d, U, Q) ==
  LET ins == InsertRow(U, Q, p.dbPath, p.name, encodeStateAsUpdate(d))
  IN [U |-> DeleteBefore(ins.U, p.dbPath, p.name, ins.lastInsertRowid), Q |-> ins.Q]

\* Bug variant of storeState: the partition is not read before the snapshot
\* is encoded.
storeStateNoFetch(p, d, U, Q, forceStore) ==
  LET f == [p |-> p, d |-> d, U |-> U, Q |-> Q, ran |-> ~(p.destroyed \/ ~p.db),
            wrote |-> FALSE, applied |-> 0, events |-> <<>>]
  IN IF ~f.p.db \/ f.p.destroyed THEN f @@ [compacted |-> FALSE]
     ELSE IF forceStore \/ f.p.dbsize >= PREFERRED_TRIM_SIZE
     THEN LET c == compact(f.p, f.d, f.U, f.Q)
          IN [f EXCEPT !.U = c.U, !.Q = c.Q,
                       !.p = [f.p EXCEPT !.dbsize = CountRows(c.U, p.dbPath, p.name)]]
             @@ [compacted |-> TRUE]
     ELSE f @@ [compacted |-> FALSE]

\* Bug variant of storeState: the threshold is not looked at, only forceStore.
storeStateForceOnly(p, d, U, Q, forceStore) ==
  LET f == fetchUpdates(p, d, U, Q, "default")
  IN IF ~f.p.db \/ f.p.destroyed THEN f @@ [compacted |-> FALSE]
     ELSE IF forceStore
     THEN LET c == compact(f.p, f.d, f.U, f.Q)
          IN [f EXCEPT !.U = c.U, !.Q = c.Q,
                       !.p = [f.p EXCEPT !.dbsize = CountRows(c.U, p.dbPath, p.name)]]
             @@ [compacted |-> TRUE]
     ELSE f @@ [compacted |-> FALSE]

\* Bug variant of storeState: _dbsize is not counted again after `compact`.
storeStateNoRecount(p, d, U, Q, forceStore) ==
  LET f == fetchUpdates(p, d, U, Q, "default")
  IN IF ~f.p.db \/ f.p.destroyed THEN f @@ [compacted |-> FALSE]
     ELSE IF forceStore \/ f.p.dbsize >= PREFERRED_TRIM_SIZE
     THEN LET c == compact(f.p, f.d, f.U, f.Q)
          IN [f EXCEPT !.U = c.U, !.Q = c.Q] @@ [compacted |-> TRUE]
     ELSE f @@ [compacted |-> FALSE]

\* storeState(persistence, forceStore)
storeState(p, d, U, Q, forceStore) ==
  LET f == fetchUpdates(p, d, U, Q, "default")
  IN IF ~f.p.db \/ f.p.destroyed THEN f @@ [compacted |-> FALSE]
     ELSE IF forceStore \/ f.p.dbsize >= PREFERRED_TRIM_SIZE
     THEN LET c == compact(f.p, f.d, f.U, f.Q)
          IN [f EXCEPT !.U = c.U, !.Q = c.Q,
                       !.p = [f.p EXCEPT !.dbsize = CountRows(c.U, p.dbPath, p.name)]]
             @@ [compacted |-> TRUE]
     ELSE f @@ [compacted |-> FALSE]

(* ------------------------------ destroy -------------------------------- *)
\* Bug variant of destroy: it returns after detaching the listener, leaving
\* _destroyed false and the database open.
destroyDetachOnly(p) ==
  LET p1 == IF p.storeTimeoutId # "null" THEN clearTimeout(p) ELSE p
  IN [p1 EXCEPT !.listening = FALSE]

\* Bug variant of destroy: the pending timeout is not cancelled.
destroyKeepsTimer(p) ==
  [p EXCEPT !.listening = FALSE,
            !.destroyed = TRUE,
            !.db = FALSE]

\* destroy(): clearTimeout (the id stays in the field), doc.off, close the db.
destroy(p) ==
  LET p1 == IF p.storeTimeoutId # "null" THEN clearTimeout(p) ELSE p
  IN [p1 EXCEPT !.listening = FALSE,
                !.destroyed = TRUE,
                !.db = FALSE]

(* ---------------------------- constructor ------------------------------ *)
\* `if (options?.dir && options?.dbPath) throw`
BothOptions(opts) == opts.dir /\ opts.dbPath

\* "Determine database path"
ResolvePath(name, opts) ==
  IF opts.dbPath THEN SharedPath
  ELSE IF opts.dir THEN DirPath(name) ELSE CwdPath(name)

\* Bug variant of constructor: the database is opened before the options are
\* checked.
constructorOpensFirst(name, opts, F) ==
  IF BothOptions(opts)
  THEN [p |-> [NoSession EXCEPT !.threw = TRUE], F |-> F \cup {ResolvePath(name, opts)}]
  ELSE [p |-> [NoSession EXCEPT !.obj = TRUE, !.name = name,
                                !.dbPath = ResolvePath(name, opts),
                                !.isSharedDb = opts.dbPath,
                                !.db = TRUE, !.listening = TRUE,
                                !.initPending = TRUE],
        F |-> F \cup {ResolvePath(name, opts)}]

\* Bug variant of constructor: the session is flagged synced and the
\* notification raised inside the constructor instead of in a queued microtask.
constructorSyncInit(name, opts, F) ==
  IF BothOptions(opts)
  THEN [p |-> [NoSession EXCEPT !.threw = TRUE], F |-> F]
  ELSE [p |-> [NoSession EXCEPT !.obj = TRUE, !.name = name,
                                !.dbPath = ResolvePath(name, opts),
                                !.isSharedDb = opts.dbPath,
                                !.db = TRUE, !.listening = TRUE,
                                !.synced = TRUE, !.emits = 1],
        F |-> F \cup {ResolvePath(name, opts)}]

\* new SqlitePersistence(name, doc, options): the new object and the files.
constructor(name, opts, F) ==
  IF BothOptions(opts)
  THEN [p |-> [NoSession EXCEPT !.threw = TRUE], F |-> F]
  ELSE [p |-> [NoSession EXCEPT !.obj = TRUE, !.name = name,
                                !.dbPath = ResolvePath(name, opts),
                                !.isSharedDb = opts.dbPath,
                                !.db = TRUE, !.listening = TRUE,
                                !.initPending = TRUE],
        F |-> F \cup {ResolvePath(name, opts)}]

\* _initialize(): the deferred initialization.
initialize(p, d, U, Q) ==
  IF ~p.db \/ p.destroyed
  THEN [p |-> p, d |-> d, U |-> U, Q |-> Q, ran |-> FALSE, wrote |-> FALSE, applied |-> 0,
        events |-> <<>>]
  ELSE fetchUpdates(p, d, U, Q, "init")

(* ------------------------- clearing storage ---------------------------- *)
\* fs.unlinkSync(path): the file and everything in it is gone.
Unlink(path, F, U, Q, C) ==
  [ F |-> F \ {path},
    U |-> [U EXCEPT ![path] = {}],
    Q |-> [Q EXCEPT ![path] = 0],
    C |-> [C EXCEPT ![path] = {}] ]

\* The two DELETE statements run on a shared database for one docName.
DeleteDocRows(path, name, F, U, Q, C) ==
  [ F |-> F, U |-> DeleteUpdates(U, path, name), Q |-> Q,
    C |-> DeleteCustom(C, path, name) ]

\* Bug variant of clearDataErase: the file is unlinked in shared mode too.
clearDataEraseUnlink(p, F, U, Q, C) ==
  IF p.dbPath \in F THEN Unlink(p.dbPath, F, U, Q, C)
  ELSE [F |-> F, U |-> U, Q |-> Q, C |-> C]

\* The body of clearData() after `await this.destroy()`.
clearDataErase(p, F, U, Q, C) ==
  IF p.isSharedDb
  THEN IF p.dbPath \in F THEN DeleteDocRows(p.dbPath, p.name, F, U, Q, C)
       ELSE [F |-> F, U |-> U, Q |-> Q, C |-> C]
  ELSE IF p.dbPath \in F THEN Unlink(p.dbPath, F, U, Q, C)
       ELSE [F |-> F, U |-> U, Q |-> Q, C |-> C]

\* Bug variant of clearDocument: the shared file is unlinked like a
\* per-document file.
clearDocumentUnlink(name, loc, F, U, Q, C) ==
  LET dbFilePath == IF loc = "dbPath" THEN SharedPath
                    ELSE IF loc = "dir" THEN DirPath(name) ELSE CwdPath(name)
  IN IF dbFilePath \in F THEN Unlink(dbFilePath, F, U, Q, C)
     ELSE [F |-> F, U |-> U, Q |-> Q, C |-> C]

\* clearDocument(name, dirOrOptions); loc says which form dirOrOptions has.
clearDocument(name, loc, F, U, Q, C) ==
  IF loc = "dbPath"
  THEN IF SharedPath \in F THEN DeleteDocRows(SharedPath, name, F, U, Q, C)
       ELSE [F |-> F, U |-> U, Q |-> Q, C |-> C]
  ELSE LET dbFilePath == IF loc = "dir" THEN DirPath(name) ELSE CwdPath(name)
       IN IF dbFilePath \in F THEN Unlink(dbFilePath, F, U, Q, C)
          ELSE [F |-> F, U |-> U, Q |-> Q, C |-> C]

(* ------------------------------ metadata ------------------------------- *)
\* get(key)
get(p, C, key) ==
  IF ~p.db \/ p.destroyed THEN Undefined
  ELSE LET found == {e \in C[p.dbPath] : e.docName = p.name /\ e.key = key}
       IN IF found = {} THEN Undefined
          ELSE JSONparseOrRaw((CHOOSE e \in found : TRUE).value)

\* Bug variant of set: the value is written without looking at _destroyed.
setUnguarded(p, C, key, value) ==
  [C EXCEPT ![p.dbPath] =
     {e \in @ : ~(e.docName = p.name /\ e.key = key)}
     \cup {[docName |-> p.name, key |-> key, value |-> JSONstringify(value)]}]

\* Bug variant of set: the value is stored as it is, without JSON.stringify.
setNoStringify(p, C, key, value) ==
  IF ~p.db \/ p.destroyed THEN C
  ELSE [C EXCEPT ![p.dbPath] =
          {e \in @ : ~(e.docName = p.name /\ e.key = key)}
          \cup {[docName |-> p.name, key |-> key, value |-> value.text]}]

\* set(key, value): INSERT OR REPLACE INTO custom
set(p, C, key, value) ==
  IF ~p.db \/ p.destroyed THEN C
  ELSE [C EXCEPT ![p.dbPath] =
          {e \in @ : ~(e.docName = p.name /\ e.key = key)}
          \cup {[docName |-> p.name, key |-> key, value |-> JSONstringify(value)]}]

\* del(key): DELETE FROM custom WHERE docName = ? AND key = ?
del(p, C, key) ==
  IF ~p.db \/ p.destroyed THEN C
  ELSE [C EXCEPT ![p.dbPath] = {e \in @ : ~(e.docName = p.name /\ e.key = key)}]

(* ------------------------------ actions -------------------------------- *)
RECURSIVE Sum(_, _)
Sum(f, S) == IF S = {} THEN 0
             ELSE LET x == CHOOSE y \in S : TRUE IN f[x] + Sum(f, S \ {x})

\* The rows inserted into the existing files stay within the model's bound.
IdsBounded(Q) == Sum(Q, Paths) <= MaxId

\* No connection is open on the file (files are only unlinked when closed).
NoOpenHandle(path) == \A t \in Sessions : ~(sess[t].db /\ sess[t].dbPath = path)

\* Deferred work (microtasks) runs before any timer callback.
NoMicrotask ==
  \A t \in Sessions : ~sess[t].initPending /\ sess[t].clearData # "awaiting"

SessionsOn(q) == {t \in Sessions : sess[t].obj /\ Part(sess[t]) = q}

\* hFresh after session s has called fetchUpdates (ran: it was not a no-op).
Fetched(s, ran) ==
  IF ran /\ hFresh[s] = "changed" THEN [hFresh EXCEPT ![s] = "fetched"] ELSE hFresh

\* The content of a document that was changed before it is attached.
PreAtom == 0

\* new SqlitePersistence(name, doc, options) on a free slot; pre: the document
\* already holds content when it is attached.
Attach(s, name, opts, pre) ==
  /\ \/ ~sess[s].obj
     \/ sess[s].destroyed /\ ~sess[s].initPending /\ sess[s].clearData # "awaiting"
  /\ pre => ~BothOptions(opts)
  /\ LET c == constructor(name, opts, files)
     IN /\ sess' = [sess EXCEPT ![s] = c.p]
        /\ files' = c.F
  /\ doc' = [doc EXCEPT ![s] = IF pre THEN {PreAtom} ELSE {}]
  /\ hFresh' = [hFresh EXCEPT ![s] = "none"]
  /\ UNCHANGED <<updates, seq, custom, nextAtom, hSnaps, hScn, hErased, tx>>

\* The queueMicrotask callback: this._initialize().
Initialize(s) ==
  /\ sess[s].initPending
  /\ \E p \in {[sess[s] EXCEPT !.initPending = FALSE]} :
     \E r \in {initialize(p, doc[s], updates, seq)} :
        /\ IdsBounded(r.Q)
        /\ sess' = [sess EXCEPT ![s] = r.p]
        /\ doc' = [doc EXCEPT ![s] = r.d]
        /\ updates' = r.U
        /\ seq' = r.Q
        /\ hFresh' = Fetched(s, r.ran)
        /\ hSnaps' = IF r.wrote /\ hSnaps[Part(p)] < 2
                     THEN [hSnaps EXCEPT ![Part(p)] = @ + 1] ELSE hSnaps
  /\ UNCHANGED <<files, custom, nextAtom, nAttach, hScn, hErased, tx>>

\* Bug variant of DocChange: the change is also applied to the documents of
\* the other live sessions of the partition.
DocChangePush(s) ==
  /\ sess[s].obj
  /\ nextAtom < MaxAtoms
  /\ LET a == nextAtom + 1
         p == sess[s]
         q == Part(p)
         r == IF p.listening THEN storeUpdate(p, updates, seq, {a}, FALSE)
              ELSE [p |-> p, U |-> updates, Q |-> seq, stored |-> FALSE]
     IN /\ IdsBounded(r.Q)
        /\ doc' = [t \in Sessions |->
                     IF t = s \/ (sess[t].obj /\ ~sess[t].destroyed /\ Part(sess[t]) = q)
                     THEN applyUpdate(doc[t], {a}) ELSE doc[t]]
        /\ nextAtom' = a
        /\ sess' = [sess EXCEPT ![s] = r.p]
        /\ updates' = r.U
        /\ seq' = r.Q
        /\ hFresh' = [t \in Sessions |->
                        IF t = s THEN (IF p.destroyed THEN "none" ELSE "changed")
                        ELSE IF ~p.destroyed /\ t \in SessionsOn(q) /\ hFresh[t] = "fetched"
                        THEN "changed" ELSE hFresh[t]]
        /\ hScn' = IF p.destroyed \/ ~hScn[q].on THEN hScn
                   ELSE IF p.synced THEN [hScn EXCEPT ![q].n = @ + 1]
                   ELSE [hScn EXCEPT ![q] = ScnOff]
  /\ UNCHANGED <<files, custom, nAttach, hSnaps, hErased, tx>>

\* A local change of the document (origin is not the session): the document
\* gains a new atom and emits "update" to the listener, if still registered.
DocChange(s) ==
  /\ sess[s].obj
  /\ nextAtom < MaxAtoms
  /\ LET a == nextAtom + 1
         p == sess[s]
         q == Part(p)
         r == IF p.listening THEN storeUpdate(p, updates, seq, {a}, FALSE)
              ELSE [p |-> p, U |-> updates, Q |-> seq, stored |-> FALSE]
     IN /\ IdsBounded(r.Q)
        /\ doc' = [doc EXCEPT ![s] = applyUpdate(@, {a})]
        /\ nextAtom' = a
        /\ sess' = [sess EXCEPT ![s] = r.p]
        /\ updates' = r.U
        /\ seq' = r.Q
        /\ hFresh' = [t \in Sessions |->
                        IF t = s THEN (IF p.destroyed THEN "none" ELSE "changed")
                        ELSE IF ~p.destroyed /\ t \in SessionsOn(q) /\ hFresh[t] = "fetched"
                        THEN "changed" ELSE hFresh[t]]
        /\ hScn' = IF p.destroyed \/ ~hScn[q].on THEN hScn
                   ELSE IF p.synced THEN [hScn EXCEPT ![q].n = @ + 1]
                   ELSE [hScn EXCEPT ![q] = ScnOff]
  /\ UNCHANGED <<files, custom, nAttach, hSnaps, hErased, tx>>

\* A manual fetchUpdates(persistence).
FetchUpdatesCall(s) ==
  /\ sess[s].obj
  /\ LET r == fetchUpdates(sess[s], doc[s], updates, seq, "default")
     IN /\ sess' = [sess EXCEPT ![s] = r.p]
        /\ doc' = [doc EXCEPT ![s] = r.d]
        /\ hFresh' = Fetched(s, r.ran)
  /\ UNCHANGED <<files, updates, seq, custom, nextAtom, nAttach, hSnaps, hScn, hErased, tx>>

\* A manual storeState(persistence, forceStore).
StoreStateCall(s, forceStore) ==
  /\ sess[s].obj
  /\ LET r == storeState(sess[s], doc[s], updates, seq, forceStore)
         q == Part(sess[s])
     IN /\ IdsBounded(r.Q)
        /\ sess' = [sess EXCEPT ![s] = r.p]
        /\ doc' = [doc EXCEPT ![s] = r.d]
        /\ updates' = r.U
        /\ seq' = r.Q
        /\ hFresh' = Fetched(s, r.ran)
        /\ hScn' = IF r.ran THEN [hScn EXCEPT ![q] = ScnOff] ELSE hScn
  /\ UNCHANGED <<files, custom, nextAtom, nAttach, hSnaps, hErased, tx>>

\* Bug variant of TimerFire: the callback only resets _storeTimeoutId and
\* does not call storeState.
TimerFireNoStore(s) ==
  /\ sess[s].timers > 0
  /\ NoMicrotask
  /\ sess' = [sess EXCEPT ![s] = [@ EXCEPT !.storeTimeoutId = "null", !.timers = @ - 1]]
  /\ UNCHANGED <<doc, files, updates, seq, custom, nextAtom, nAttach, hFresh, hSnaps, hScn,
                 hErased, tx>>

\* The debounce timer fires: storeState(this, false); this._storeTimeoutId = null.
TimerFire(s) ==
  /\ sess[s].timers > 0
  /\ NoMicrotask
  /\ \E r \in {storeState(sess[s], doc[s], updates, seq, FALSE)}, q \in {Part(sess[s])} :
        /\ IdsBounded(r.Q)
        /\ sess' = [sess EXCEPT ![s] = [r.p EXCEPT !.storeTimeoutId = "null",
                                                    !.timers = @ - 1]]
        /\ doc' = [doc EXCEPT ![s] = r.d]
        /\ updates' = r.U
        /\ seq' = r.Q
        /\ hFresh' = Fetched(s, r.ran)
        /\ hScn' = IF hScn[q].on THEN [hScn EXCEPT ![q].fired = TRUE] ELSE hScn
  /\ UNCHANGED <<files, custom, nextAtom, nAttach, hSnaps, hErased, tx>>

\* persistence.destroy()
Destroy(s) ==
  /\ sess[s].obj
  /\ sess' = [sess EXCEPT ![s] = destroy(@)]
  /\ hFresh' = [hFresh EXCEPT ![s] = "none"]
  /\ UNCHANGED <<doc, files, updates, seq, custom, nextAtom, nAttach, hSnaps, hScn, hErased, tx>>

\* persistence.clearData() up to its `await this.destroy()`.
ClearData(s) ==
  /\ sess[s].obj
  /\ sess[s].clearData # "awaiting"
  /\ sess' = [sess EXCEPT ![s] = [destroy(@) EXCEPT !.clearData = "awaiting"]]
  /\ hFresh' = [hFresh EXCEPT ![s] = "none"]
  /\ UNCHANGED <<doc, files, updates, seq, custom, nextAtom, nAttach, hSnaps, hScn, hErased, tx>>

\* The partitions whose rows an erase of (path, name) removes.
Erased(path, name, wholeFile) ==
  IF wholeFile THEN {path} \X Docs ELSE {<<path, name>>}

\* clearData() resumed after the await: erase the storage.
ClearDataErase(s) ==
  /\ sess[s].clearData = "awaiting"
  /\ sess[s].isSharedDb \/ NoOpenHandle(sess[s].dbPath)
  /\ LET p == sess[s]
         r == clearDataErase(p, files, updates, seq, custom)
         gone == Erased(p.dbPath, p.name, ~p.isSharedDb)
     IN /\ files' = r.F
        /\ updates' = r.U
        /\ seq' = r.Q
        /\ custom' = r.C
        /\ hScn' = [q \in Partitions |-> IF q \in gone THEN ScnOff ELSE hScn[q]]
  /\ sess' = [sess EXCEPT ![s].clearData = "done"]
  /\ hErased' = "clearData"
  /\ UNCHANGED tx
  /\ UNCHANGED <<doc, nextAtom, nAttach, hFresh, hSnaps, tx>>

\* The module-level clearDocument(name, dirOrOptions).
ClearDocument(name, loc) ==
  /\ loc = "dbPath" \/ NoOpenHandle(DirPath(name))
  /\ LET r == clearDocument(name, loc, files, updates, seq, custom)
         gone == IF loc = "dbPath" THEN Erased(SharedPath, name, FALSE)
                 ELSE Erased(DirPath(name), name, TRUE)
     IN /\ files' = r.F
        /\ updates' = r.U
        /\ seq' = r.Q
        /\ custom' = r.C
        /\ hScn' = [q \in Partitions |-> IF q \in gone THEN ScnOff ELSE hScn[q]]
  /\ hErased' = "clearDocument"
  /\ UNCHANGED tx
  /\ UNCHANGED <<sess, doc, nextAtom, nAttach, hFresh, hSnaps, tx>>

\* persistence.set(key, value)
Set(s, key, value) ==
  /\ sess[s].obj
  /\ custom' = set(sess[s], custom, key, value)
  /\ UNCHANGED <<sess, doc, files, updates, seq, nextAtom, nAttach,
                 hFresh, hSnaps, hScn, hErased, tx>>

\* persistence.del(key)
Del(s, key) ==
  /\ sess[s].obj
  /\ custom' = del(sess[s], custom, key)
  /\ UNCHANGED <<sess, doc, files, updates, seq, nextAtom, nAttach,
                 hFresh, hSnaps, hScn, hErased, tx>>

\* A change applied to the document with the session itself as origin
\* (Y.applyUpdate(doc, update, persistence)): the listener is called with
\* origin === this.
SelfChange(s) ==
  /\ sess[s].obj
  /\ nextAtom < MaxAtoms
  /\ LET a == nextAtom + 1
         p == sess[s]
         r == IF p.listening THEN storeUpdate(p, updates, seq, {a}, TRUE)
              ELSE [p |-> p, U |-> updates, Q |-> seq, stored |-> FALSE]
     IN /\ IdsBounded(r.Q)
        /\ doc' = [doc EXCEPT ![s] = applyUpdate(@, {a})]
        /\ nextAtom' = a
        /\ sess' = [sess EXCEPT ![s] = r.p]
        /\ updates' = r.U
        /\ seq' = r.Q
        /\ hFresh' = [hFresh EXCEPT ![s] = "none"]
        /\ hScn' = [hScn EXCEPT ![Part(p)] = ScnOff]
  /\ UNCHANGED <<files, custom, nAttach, hSnaps, hErased, tx>>

\* The document raises "destroy": the handler registered by the constructor
\* (this.destroy.bind(this)) runs; it stays registered after destroy().
DocDestroy(s) ==
  /\ sess[s].obj
  /\ sess' = [sess EXCEPT ![s] = destroy(@)]
  /\ hFresh' = [hFresh EXCEPT ![s] = "none"]
  /\ UNCHANGED <<doc, files, updates, seq, custom, nextAtom, nAttach, hSnaps, hScn,
                 hErased, tx>>

\* persistence.get(key): a read, nothing changes.
Get(s, key) ==
  /\ sess[s].obj
  /\ get(sess[s], custom, key) \in AnyValues \cup {Undefined, Null}
  /\ UNCHANGED vars

\* The debounce timer fires and the compact transaction of its storeState
\* throws a storage error: the transaction is rolled back, the exception
\* leaves storeState and the callback, `this._storeTimeoutId = null` is not
\* reached and the field keeps the id of the timeout that has run.
TimerFireFails(s) ==
  /\ sess[s].timers > 0
  /\ NoMicrotask
  /\ \E f \in {fetchUpdates(sess[s], doc[s], updates, seq, "default")} :
        /\ f.p.db /\ ~f.p.destroyed
        /\ f.p.dbsize >= PREFERRED_TRIM_SIZE
        /\ sess' = [sess EXCEPT ![s] = [f.p EXCEPT !.timers = @ - 1]]
        /\ doc' = [doc EXCEPT ![s] = f.d]
        /\ updates' = f.U
        /\ seq' = f.Q
        /\ hFresh' = Fetched(s, f.ran)
        /\ hScn' = [hScn EXCEPT ![Part(sess[s])] = ScnOff]
  /\ UNCHANGED <<files, custom, nextAtom, nAttach, hSnaps, hErased, tx>>

(* --- storeState step by step, for a process that may stop in between --- *)
\* Bug variant of Durable: the two statements of compact() run outside a
\* transaction, each is in the file as soon as it has run.
DurableAutocommit(t, U, Q) == [U |-> U, Q |-> Q]

\* What the database file holds if the process stops now: the statements of
\* an open db.transaction() are not in the file before its COMMIT.
Durable(t, U, Q) ==
  IF t.stage \in {"idle", "fetched"} THEN [U |-> U, Q |-> Q]
  ELSE [U |-> [U EXCEPT ![t.path] = t.before], Q |-> [Q EXCEPT ![t.path] = t.seq0]]

\* storeState up to the call of compact(): fetchUpdates, the checks, BEGIN.
StoreStateBegin(s, forceStore) ==
  /\ sess[s].obj
  /\ tx.stage = "idle"
  /\ LET f == fetchUpdates(sess[s], doc[s], updates, seq, "default")
     IN /\ f.p.db /\ ~f.p.destroyed
        /\ forceStore \/ f.p.dbsize >= PREFERRED_TRIM_SIZE
        /\ sess' = [sess EXCEPT ![s] = f.p]
        /\ doc' = [doc EXCEPT ![s] = f.d]
        /\ updates' = f.U
        /\ seq' = f.Q
        /\ hFresh' = Fetched(s, f.ran)
        /\ hScn' = [hScn EXCEPT ![Part(sess[s])] = ScnOff]
        /\ tx' = [stage |-> "begun", s |-> s, path |-> f.p.dbPath,
                  before |-> f.U[f.p.dbPath], seq0 |-> f.Q[f.p.dbPath], newId |-> 0]
  /\ UNCHANGED <<files, custom, nextAtom, nAttach, hSnaps, hErased>>

\* First statement of the transaction: INSERT the full state.
CompactInsert ==
  /\ tx.stage = "begun"
  /\ LET p == sess[tx.s]
         ins == InsertRow(updates, seq, p.dbPath, p.name, encodeStateAsUpdate(doc[tx.s]))
     IN /\ IdsBounded(ins.Q)
        /\ updates' = ins.U
        /\ seq' = ins.Q
        /\ tx' = [tx EXCEPT !.stage = "inserted", !.newId = ins.lastInsertRowid]
  /\ UNCHANGED <<sess, doc, files, custom, nextAtom, nAttach, hFresh, hSnaps, hScn, hErased>>

\* Second statement of the transaction: DELETE the rows before the new one.
CompactDelete ==
  /\ tx.stage = "inserted"
  /\ updates' = DeleteBefore(updates, sess[tx.s].dbPath, sess[tx.s].name, tx.newId)
  /\ tx' = [tx EXCEPT !.stage = "deleted"]
  /\ UNCHANGED <<sess, doc, files, seq, custom, nextAtom, nAttach, hFresh, hSnaps, hScn,
                 hErased>>

\* COMMIT, and the rest of storeState: refresh _dbsize.
CompactCommit ==
  /\ tx.stage = "deleted"
  /\ sess' = [sess EXCEPT ![tx.s].dbsize =
                CountRows(updates, sess[tx.s].dbPath, sess[tx.s].name)]
  /\ tx' = NoTx
  /\ UNCHANGED <<doc, files, updates, seq, custom, nextAtom, nAttach, hFresh, hSnaps, hScn,
                 hErased>>

\* The process stops: every session object and document is lost, the database
\* files keep what is durable.
Crash ==
  /\ \E s \in Sessions : sess[s].obj
  /\ LET m == Durable(tx, updates, seq)
     IN updates' = m.U /\ seq' = m.Q
  /\ sess' = [s \in Sessions |-> NoSession]
  /\ doc' = [s \in Sessions |-> {}]
  /\ hFresh' = [s \in Sessions |-> "none"]
  /\ hScn' = [q \in Partitions |-> ScnOff]
  /\ tx' = NoTx
  /\ UNCHANGED <<files, custom, nextAtom, nAttach, hSnaps, hErased>>

(* ------ storeState of a session whose partition another process uses ----- *)
\* storeState up to the call of compact(): fetchUpdates, the checks, and the
\* encoding of the full state. The statements of another process may run
\* before the transaction of compact() begins.
StoreStateFetch(s, forceStore) ==
  /\ sess[s].obj
  /\ tx.stage = "idle"
  /\ LET f == fetchUpdates(sess[s], doc[s], updates, seq, "default")
     IN /\ sess' = [sess EXCEPT ![s] = f.p]
        /\ doc' = [doc EXCEPT ![s] = f.d]
        /\ hFresh' = Fetched(s, f.ran)
        /\ hScn' = IF f.ran THEN [hScn EXCEPT ![Part(sess[s])] = ScnOff] ELSE hScn
        /\ tx' = IF f.p.db /\ ~f.p.destroyed
                    /\ (forceStore \/ f.p.dbsize >= PREFERRED_TRIM_SIZE)
                 THEN [NoTx EXCEPT !.stage = "fetched", !.s = s, !.path = f.p.dbPath]
                 ELSE NoTx
  /\ UNCHANGED <<files, updates, seq, custom, nextAtom, nAttach, hSnaps, hErased>>

\* compact() and the rest of storeState: the transaction runs under the
\* database's write lock, no statement of another process runs inside it.
CompactTransaction ==
  /\ tx.stage = "fetched"
  /\ LET p == sess[tx.s]
         c == compact(p, doc[tx.s], updates, seq)
     IN /\ IdsBounded(c.Q)
        /\ updates' = c.U
        /\ seq' = c.Q
        /\ sess' = [sess EXCEPT ![tx.s].dbsize = CountRows(c.U, p.dbPath, p.name)]
  /\ tx' = NoTx
  /\ UNCHANGED <<doc, files, custom, nextAtom, nAttach, hFresh, hSnaps, hScn, hErased>>

\* Session s is not in the middle of a storeState call (its process can run
\* another of its operations).
Idle(s) == tx.stage = "idle" \/ tx.s # s

SharedOpts == [dir |-> FALSE, dbPath |-> TRUE]

\* Session slots are interchangeable: the first constructor call uses s1.
SlotOrder(s) == s = "s1" \/ sess["s1"].obj \/ sess["s1"].threw

\* The session slots of the two-document scenarios: s1 works on document A,
\* s2 on document B.
DocOf(s) == IF s = "s1" THEN "A" ELSE "B"

\* The value the two-document scenarios store under a key.
Hello == [type |-> "string", text |-> "hello"]

\* Erasing storage. s1 opens document A in the shared file or in its own file,
\* writes, is closed and reopened, and its storage is cleared (clearData,
\* clearDocument); s2 is opened once on document B in the shared file and
\* stays open, holding B's snapshot row and metadata.
Next ==
  \/ \E opts \in OptionSets :
       /\ nAttach < MaxAttach
       /\ Attach("s1", "A", opts, FALSE)
       /\ nAttach' = nAttach + 1
  \/ /\ ~sess["s2"].obj
     /\ Attach("s2", "B", SharedOpts, FALSE)
     /\ UNCHANGED nAttach
  \/ \E s \in Sessions : Initialize(s)
  \/ DocChange("s1")
  \/ TimerFire("s1")
  \/ Destroy("s1")
  \/ ClearData("s1")
  \/ ClearDataErase("s1")
  \/ \E loc \in {"dbPath", "dir"} : ClearDocument("A", loc)
  \/ \E s \in Sessions, key \in Keys : Set(s, key, Hello)
  \/ \E key \in Keys : Del("s1", key)

Spec == Init /\ [][Next]_vars

\* Two documents in the shared file, each with its own session, and every
\* operation of a live session.
NextIso ==
  \/ \E s \in Sessions :
       /\ nAttach < MaxAttach
       /\ Attach(s, DocOf(s), SharedOpts, FALSE)
       /\ nAttach' = nAttach + 1
  \/ \E s \in Sessions : Initialize(s)
  \/ \E s \in Sessions : DocChange(s)
  \/ \E s \in Sessions : FetchUpdatesCall(s)
  \/ \E s \in Sessions, forceStore \in BOOLEAN : StoreStateCall(s, forceStore)
  \/ \E s \in Sessions : TimerFire(s)
  \/ \E s \in Sessions : Destroy(s)
  \/ \E s \in Sessions, key \in Keys : Set(s, key, Hello)
  \/ \E s \in Sessions, key \in Keys : Del(s, key)

SpecIso == Init /\ [][NextIso]_vars

\* The update log of one partition: sessions on document A in the shared file,
\* attached to documents that may already hold content; nothing is erased.
NextLog ==
  \/ \E s \in Sessions, pre \in BOOLEAN :
       /\ nAttach < MaxAttach
       /\ SlotOrder(s)
       /\ Attach(s, "A", SharedOpts, pre)
       /\ nAttach' = nAttach + 1
  \/ \E s \in Sessions : Initialize(s)
  \/ \E s \in Sessions : DocChange(s)
  \/ \E s \in Sessions : FetchUpdatesCall(s)
  \/ \E s \in Sessions, forceStore \in BOOLEAN : StoreStateCall(s, forceStore)
  \/ \E s \in Sessions : TimerFire(s)
  \/ \E s \in Sessions : Destroy(s)

SpecLog == Init /\ [][NextLog]_vars

\* The life cycle of the sessions of one document in the shared file: every
\* operation may be called at any time, also on a destroyed session.
NextLife ==
  \/ \E s \in Sessions :
       /\ nAttach < MaxAttach
       /\ SlotOrder(s)
       /\ Attach(s, "A", SharedOpts, FALSE)
       /\ nAttach' = nAttach + 1
  \/ \E s \in Sessions : Initialize(s)
  \/ \E s \in Sessions : DocChange(s)
  \/ \E s \in Sessions : SelfChange(s)
  \/ \E s \in Sessions : FetchUpdatesCall(s)
  \/ \E s \in Sessions, forceStore \in BOOLEAN : StoreStateCall(s, forceStore)
  \/ \E s \in Sessions : TimerFire(s)
  \/ \E s \in Sessions : Destroy(s)
  \/ \E s \in Sessions : DocDestroy(s)
  \/ \E s \in Sessions, key \in Keys : Get(s, key)
  \/ \E s \in Sessions, key \in Keys : Set(s, key, Hello)
  \/ \E s \in Sessions, key \in Keys : Del(s, key)

SpecLife == Init /\ [][NextLife]_vars

\* Compaction in a process that may stop at any point: storeState runs
\* statement by statement, and nothing else runs while it does (storeState is
\* synchronous).
NextCrash ==
  \/ \E s \in Sessions :
       /\ tx.stage = "idle"
       /\ nAttach < MaxAttach
       /\ SlotOrder(s)
       /\ Attach(s, "A", SharedOpts, FALSE)
       /\ nAttach' = nAttach + 1
  \/ \E s \in Sessions : tx.stage = "idle" /\ Initialize(s)
  \/ \E s \in Sessions : tx.stage = "idle" /\ DocChange(s)
  \/ \E s \in Sessions : tx.stage = "idle" /\ Destroy(s)
  \/ \E s \in Sessions, forceStore \in BOOLEAN : StoreStateBegin(s, forceStore)
  \/ CompactInsert
  \/ CompactDelete
  \/ CompactCommit
  \/ Crash

SpecCrash == Init /\ [][NextCrash]_vars

\* Opening sessions: constructor calls on documents that may hold content,
\* the deferred initializations, changes and destroy. The queued microtask of
\* every session runs: the job queue is drained before the program goes on.
NextOpen ==
  \/ \E s \in Sessions, pre \in BOOLEAN :
       /\ nAttach < MaxAttach
       /\ SlotOrder(s)
       /\ Attach(s, "A", SharedOpts, pre)
       /\ nAttach' = nAttach + 1
  \/ \E s \in Sessions : Initialize(s)
  \/ \E s \in Sessions : DocChange(s)
  \/ \E s \in Sessions : Destroy(s)

SpecOpenFair == Init /\ [][NextOpen]_vars /\ \A s \in Sessions : WF_vars(Initialize(s))

\* The metadata of one document: sessions are opened on it in the shared file
\* or in its own file, closed and reopened, any value is set, read and
\* deleted, and the document's storage may be cleared at any time.
NextMeta ==
  \/ \E s \in Sessions, opts \in OptionSets :
       /\ nAttach < MaxAttach
       /\ SlotOrder(s)
       /\ ~BothOptions(opts)
       /\ Attach(s, "A", opts, FALSE)
       /\ nAttach' = nAttach + 1
  \/ \E s \in Sessions : Initialize(s)
  \/ \E s \in Sessions : Destroy(s)
  \/ \E s \in Sessions, key \in Keys, value \in AnyValues : Set(s, key, value)
  \/ \E s \in Sessions, key \in Keys : Del(s, key)
  \/ \E s \in Sessions, key \in Keys : Get(s, key)
  \/ \E loc \in {"dbPath", "dir"} : ClearDocument("A", loc)

SpecMeta == Init /\ [][NextMeta]_vars

\* Two processes, one session each, on the same partition of the shared
\* file: between the fetchUpdates of a storeState and its transaction the
\* other process may run its operations.
NextProc ==
  \/ \E s \in Sessions :
       /\ ~sess[s].obj
       /\ SlotOrder(s)
       /\ Attach(s, "A", SharedOpts, FALSE)
       /\ nAttach' = nAttach + 1
  \/ \E s \in Sessions : Idle(s) /\ Initialize(s)
  \/ \E s \in Sessions : Idle(s) /\ DocChange(s)
  \/ \E s \in Sessions : Idle(s) /\ FetchUpdatesCall(s)
  \/ \E s \in Sessions : Idle(s) /\ Destroy(s)
  \/ \E s \in Sessions, forceStore \in BOOLEAN : StoreStateFetch(s, forceStore)
  \/ CompactTransaction

SpecProc == Init /\ [][NextProc]_vars

\* The row a pending compaction will insert still fits the model's bound on
\* ids after one more row.
RoomToCompact == Sum(seq, Paths) + 2 <= MaxId

\* The debounce timer at work: sessions of one partition are opened, change
\* their documents and are destroyed; no storeState is called by hand. The
\* event loop runs every queued microtask and every pending timeout.
NextTimer ==
  \/ \E s \in Sessions :
       /\ nAttach < MaxAttach
       /\ SlotOrder(s)
       /\ Attach(s, "A", SharedOpts, FALSE)
       /\ nAttach' = nAttach + 1
  \/ \E s \in Sessions : Initialize(s)
  \/ \E s \in Sessions : RoomToCompact /\ DocChange(s)
  \/ \E s \in Sessions : TimerFire(s)
  \/ \E s \in Sessions : Destroy(s)

SpecTimerFair ==
  /\ Init /\ [][NextTimer]_vars
  /\ \A s \in Sessions : WF_vars(Initialize(s)) /\ WF_vars(TimerFire(s))

\* Storage errors in the background compaction: the sessions of one
\* partition change their documents, and the transaction of a timer-driven
\* storeState may fail.
NextFail ==
  \/ \E s \in Sessions :
       /\ nAttach < MaxAttach
       /\ SlotOrder(s)
       /\ Attach(s, "A", SharedOpts, FALSE)
       /\ nAttach' = nAttach + 1
  \/ \E s \in Sessions : Initialize(s)
  \/ \E s \in Sessions : DocChange(s)
  \/ \E s \in Sessions : TimerFire(s)
  \/ \E s \in Sessions : TimerFireFails(s)
  \/ \E s \in Sessions : Destroy(s)

SpecFail == Init /\ [][NextFail]_vars

(* ======================================================================= *)
(*                               Properties                                *)
(* ======================================================================= *)
Live(s) == sess[s].obj /\ ~sess[s].destroyed
Count(q) == CountRows(updates, q[1], q[2])
Rows(q) == RowsOf(updates, q[1], q[2])
RowsNext(q) == RowsOf(updates', q[1], q[2])
CustomOf(C, q) == {e \in C[q[1]] : e.docName = q[2]}

\* Every session attached to partition q has been closed (and has run its
\* deferred initialization).
Closed(q) ==
  /\ SessionsOn(q) # {}
  /\ \A s \in SessionsOn(q) : sess[s].destroyed /\ ~sess[s].initPending

(* ---- C1 ---- *)
\* C1: in every reachable state, replaying the rows of a partition in
\* ascending id order into an empty document yields a state that contains
\* everything held by the document of every synced, non-destroyed session
\* attached to that partition (SpecLog erases nothing).
C1_ReplayContainsDocs ==
  \A s \in Sessions :
    (Live(s) /\ sess[s].synced)
      => doc[s] \subseteq Replay(updates, sess[s].dbPath, sess[s].name)

(* ---- C2 ---- *)
\* A step of an open/destroy cycle of session s: the constructor, the deferred
\* initialization, or destroy.
OpenCloseStep(s) ==
  \/ \E name \in Docs, opts \in OptionSets, pre \in BOOLEAN : Attach(s, name, opts, pre)
  \/ Initialize(s)
  \/ Destroy(s)

\* C2: on a partition that already holds at least one row, no step of an
\* open/destroy cycle (attach, deferred initialization, destroy) changes the
\* partition's rows, hence its row count: initialization writes no snapshot
\* and replay appends no row.
C2_ReopenKeepsRows ==
  [][\A s \in Sessions :
       OpenCloseStep(s)
         => \A q \in Partitions :
              Count(q) >= 1 => (RowsNext(q) = Rows(q) /\ Cardinality(RowsNext(q)) = Count(q))
    ]_vars

\* Two sessions have been opened and destroyed on the same partition without
\* any document change, and the partition holds its single snapshot row.
C2_Witness ==
  \E s, t \in Sessions :
    /\ s # t
    /\ sess[s].obj /\ sess[t].obj
    /\ Part(sess[s]) = Part(sess[t])
    /\ sess[s].synced /\ sess[t].synced
    /\ sess[s].destroyed /\ sess[t].destroyed
    /\ hScn[Part(sess[s])] = ScnStart
    /\ Count(Part(sess[s])) = 1

(* ---- C3 ---- *)
\* C3: the deferred initialization of a live session on a partition with zero
\* rows writes exactly one row, the snapshot of the session's document; an
\* initialization that finds a row in the partition (or a destroyed session)
\* writes nothing; and over all opens of a partition, also with several
\* sessions attached before any has initialized, the initial snapshot is
\* written at most once.
C3_SnapshotOnce ==
  /\ [][\A s \in Sessions :
          Initialize(s)
            => LET p == sess[s]
                   q == Part(p)
               IN IF p.db /\ ~p.destroyed /\ Count(q) = 0
                  THEN /\ RowsNext(q) = {[id |-> seq[p.dbPath] + 1, docName |-> p.name,
                                         data |-> doc[s]]}
                       /\ hSnaps'[q] = hSnaps[q] + 1
                  ELSE updates' = updates /\ hSnaps' = hSnaps
      ]_vars
  /\ [](\A q \in Partitions : hSnaps[q] <= 1)

\* Two live sessions of one partition have both initialized; the first found
\* the partition empty and wrote the snapshot, the second replayed it.
C3_Witness ==
  \E s, t \in Sessions :
    /\ s # t
    /\ Live(s) /\ Live(t)
    /\ Part(sess[s]) = Part(sess[t])
    /\ sess[s].synced /\ sess[t].synced
    /\ sess[s].dbref = 0 /\ sess[t].dbref = 1
    /\ hSnaps[Part(sess[s])] = 1
    /\ Count(Part(sess[s])) = 1

(* ---- C4 ---- *)
\* C4 as stated: a partition that was opened empty, received N changes from
\* synced sessions and whose sessions are all destroyed holds exactly 1 + N
\* rows, for every N, also after being reopened and closed again.
C4_RowCountAfterClose ==
  \A q \in Partitions :
    (hScn[q].on /\ hSnaps[q] >= 1 /\ Closed(q)) => Count(q) = 1 + hScn[q].n

\* C4 amended: a partition that was opened empty and has received N changes
\* from synced sessions holds exactly 1 + N rows as long as no debounce timer
\* has fired, before and after close and reopen; and a timer fires only when
\* 1 + N has reached the threshold.
C4_RowCountUntilCompaction ==
  \A q \in Partitions :
    (hScn[q].on /\ hSnaps[q] >= 1)
      => /\ ~hScn[q].fired => Count(q) = 1 + hScn[q].n
         /\ hScn[q].fired => 1 + hScn[q].n >= PREFERRED_TRIM_SIZE

\* A session made a change on a partition it opened empty and was destroyed;
\* the partition was reopened by a second session, which was destroyed too.
C4_Witness ==
  \E s, t \in Sessions :
    /\ s # t
    /\ sess[s].obj /\ sess[t].obj
    /\ Part(sess[s]) = Part(sess[t])
    /\ sess[s].synced /\ sess[t].synced
    /\ sess[s].destroyed /\ sess[t].destroyed
    /\ LET q == Part(sess[s])
       IN hScn[q].on /\ ~hScn[q].fired /\ hScn[q].n >= 1 /\ hSnaps[q] = 1
          /\ Count(q) = 1 + hScn[q].n

(* ---- C5 ---- *)
\* C5: when the debounce timer of a session fires (it is only armed by a local
\* change that brought rowCount to the threshold), the partition afterwards
\* holds fewer rows than the threshold, and replaying it into a fresh document
\* gives exactly the document state of that session.
C5_CompactionRoundTrip ==
  [][\A s \in Sessions :
       TimerFire(s)
         => /\ CountRows(updates', sess[s].dbPath, sess[s].name) < PREFERRED_TRIM_SIZE
            /\ Replay(updates', sess[s].dbPath, sess[s].name) = doc'[s]
    ]_vars

(* ---- C6 ---- *)
\* C6: two live sessions on the same partition that have both made local
\* changes and then each called fetchUpdates, with no change since, hold
\* equal documents.
C6_FetchConverges ==
  \A s, t \in Sessions :
    (/\ s # t
     /\ Live(s) /\ Live(t)
     /\ Part(sess[s]) = Part(sess[t])
     /\ hFresh[s] = "fetched" /\ hFresh[t] = "fetched")
      => doc[s] = doc[t]

(* ---- C7 ---- *)
\* An operation performed by session s for its own partition.
SessionStep(s) ==
  \/ Initialize(s)
  \/ DocChange(s)
  \/ FetchUpdatesCall(s)
  \/ \E forceStore \in BOOLEAN : StoreStateCall(s, forceStore)
  \/ TimerFire(s)
  \/ \E key \in Keys : Set(s, key, Hello)
  \/ \E key \in Keys : Del(s, key)

\* C7: in the shared file, every operation performed by a session (initial
\* snapshot, local change append, fetchUpdates, storeState and the timer's
\* compaction, metadata set and del) leaves the update rows (ids and contents)
\* and the metadata entries of every partition other than the session's own
\* unchanged.
C7_OtherPartitionsUntouched ==
  [][\A s \in Sessions :
       SessionStep(s)
         => \A q \in Partitions :
              q # Part(sess[s])
                => /\ RowsNext(q) = Rows(q)
                   /\ CustomOf(custom', q) = CustomOf(custom, q)
    ]_vars

\* Document A was compacted after document B had written its snapshot and
\* metadata: A's only row is younger than B's row, which is still there.
C7_Witness ==
  LET A == <<SharedPath, "A">>
      B == <<SharedPath, "B">>
  IN /\ hSnaps[A] = 1 /\ hSnaps[B] = 1
     /\ Count(A) = 1
     /\ Count(B) >= 1
     /\ \A r \in Rows(A) : \A t \in Rows(B) : t.id < r.id
     /\ CustomOf(custom, B) # {}
     /\ CustomOf(custom, A) = {}

(* ---- C8 ---- *)
\* C8: clearDocument(A, {dbPath}) on an existing shared file removes every
\* update row and every metadata entry of A, leaves the rows and metadata of
\* every other partition unchanged and keeps the file; replaying A then gives
\* an empty document, and a session whose initialization finds the partition
\* empty keeps its document as it is and writes one snapshot row of it.
C8_ClearDocumentShared ==
  /\ [][(ClearDocument("A", "dbPath") /\ SharedPath \in files)
          => LET A == <<SharedPath, "A">>
             IN /\ RowsNext(A) = {}
                /\ CustomOf(custom', A) = {}
                /\ Replay(updates', SharedPath, "A") = {}
                /\ \A q \in Partitions \ {A} :
                     /\ RowsNext(q) = Rows(q)
                     /\ CustomOf(custom', q) = CustomOf(custom, q)
                /\ files' = files
      ]_vars
  /\ [][\A s \in Sessions :
          (Initialize(s) /\ Live(s) /\ Count(Part(sess[s])) = 0)
            => /\ doc'[s] = doc[s]
               /\ Cardinality(RowsNext(Part(sess[s]))) = 1
               /\ \A r \in RowsNext(Part(sess[s])) : r.data = doc[s]
      ]_vars

\* Document A was opened in the shared file, cleared by clearDocument and
\* opened again: the new session started from an empty document and wrote the
\* partition's second initial snapshot, while B's row and metadata are intact.
C8_Witness ==
  LET A == <<SharedPath, "A">>
      B == <<SharedPath, "B">>
  IN /\ hErased = "clearDocument"
     /\ hSnaps[A] = 2
     /\ Live("s1") /\ sess["s1"].synced /\ Part(sess["s1"]) = A
     /\ doc["s1"] = {}
     /\ Rows(A) = {[id |-> seq[SharedPath], docName |-> "A", data |-> {}]}
     /\ Count(B) = 1
     /\ CustomOf(custom, B) # {}

(* ---- C9 ---- *)
\* C9: clearData first destroys the session without touching storage; the
\* erase that follows runs on the destroyed session and, in shared mode,
\* removes exactly the update rows and metadata entries of the session's own
\* docName, keeping the file and every other partition, while in exclusive
\* mode it removes the session's whole file.
C9_ClearData ==
  /\ [][\A s \in Sessions :
          ClearData(s)
            => /\ sess'[s].destroyed /\ ~sess'[s].db /\ ~sess'[s].listening
               /\ <<files, updates, custom>>' = <<files, updates, custom>>
      ]_vars
  /\ [][\A s \in Sessions :
          ClearDataErase(s)
            => LET p == sess[s]
                   own == Part(p)
               IN /\ p.destroyed
                  /\ IF p.isSharedDb
                     THEN /\ files' = files
                          /\ RowsNext(own) = {}
                          /\ CustomOf(custom', own) = {}
                          /\ \A q \in Partitions \ {own} :
                               /\ RowsNext(q) = Rows(q)
                               /\ CustomOf(custom', q) = CustomOf(custom, q)
                     ELSE /\ files' = files \ {p.dbPath}
                          /\ updates' = [updates EXCEPT ![p.dbPath] = {}]
                          /\ custom' = [custom EXCEPT ![p.dbPath] = {}]
      ]_vars

\* clearData has completed on a session of document A in the shared file that
\* had written its snapshot: the partition is empty, B's row and metadata and
\* the file are still there.
C9_Witness ==
  LET A == <<SharedPath, "A">>
      B == <<SharedPath, "B">>
  IN /\ sess["s1"].clearData = "done"
     /\ sess["s1"].isSharedDb
     /\ hErased = "clearData"
     /\ hSnaps[A] >= 1
     /\ Count(A) = 0 /\ CustomOf(custom, A) = {}
     /\ Count(B) = 1 /\ CustomOf(custom, B) # {}
     /\ SharedPath \in files

(* ---- C10 ---- *)
BothOpts == [dir |-> TRUE, dbPath |-> TRUE]

\* C10: a constructor call with both `dir` and `dbPath` throws before any
\* storage effect: no file is opened or created, no row or metadata entry is
\* written, no session object exists, no update listener is registered and no
\* deferred initialization is scheduled.
C10_BothOptionsThrow ==
  [][\A s \in Sessions, name \in Docs :
       Attach(s, name, BothOpts, FALSE)
         => /\ <<files, updates, seq, custom>>' = <<files, updates, seq, custom>>
            /\ sess'[s].threw
            /\ ~sess'[s].obj /\ ~sess'[s].db
            /\ ~sess'[s].listening
            /\ ~sess'[s].initPending
    ]_vars

\* A constructor call with both options has thrown while no database file
\* exists.
C10_Witness ==
  /\ sess["s1"].threw
  /\ files = {}

(* ---- C11 ---- *)
\* An operation called on session s, or a change notification of its document.
CallOn(s) ==
  \/ \E key \in Keys : Get(s, key)
  \/ \E key \in Keys : Set(s, key, Hello)
  \/ \E key \in Keys : Del(s, key)
  \/ DocChange(s)
  \/ FetchUpdatesCall(s)
  \/ \E forceStore \in BOOLEAN : StoreStateCall(s, forceStore)

\* C11: once a session is destroyed, get, set, del, a change of its document,
\* fetchUpdates and storeState leave the update rows, the metadata entries
\* and the session (its _dbref and _dbsize included) unchanged; get returns
\* undefined; the change listener, were it still called, stores nothing. No
\* statement is run on the closed connection (db is null and every operation
\* returns at its guard), so none of them can throw.
C11_DestroyedNoOps ==
  /\ [][\A s \in Sessions :
          (sess[s].obj /\ sess[s].destroyed /\ CallOn(s))
            => /\ <<files, updates, seq, custom>>' = <<files, updates, seq, custom>>
               /\ sess'[s] = sess[s]
      ]_vars
  /\ [](\A s \in Sessions :
          (sess[s].obj /\ sess[s].destroyed)
            => /\ ~sess[s].db
               /\ \A key \in Keys : get(sess[s], custom, key) = Undefined
               /\ ~storeUpdate(sess[s], updates, seq, {PreAtom}, FALSE).stored)

\* The only session ever created wrote its snapshot and a metadata entry and
\* was destroyed; its document changed afterwards (or with the session as
\* origin) and the partition still holds just the snapshot and the entry.
C11_Witness ==
  LET A == <<SharedPath, "A">>
  IN /\ nAttach = 1
     /\ sess["s1"].obj /\ sess["s1"].destroyed /\ sess["s1"].synced
     /\ doc["s1"] # {}
     /\ Rows(A) = {[id |-> 1, docName |-> "A", data |-> {}]}
     /\ sess["s1"].dbsize = 1
     /\ CustomOf(custom, A) # {}

(* ---- C12 ---- *)
\* Session s has been destroyed (its listener is detached).
Torn(s) == sess[s].obj /\ (sess[s].destroyed \/ ~sess[s].listening)

\* C12: a session destroyed while its deferred initialization is still
\* pending is not synced and has raised no synced notification; when the
\* deferred initialization then runs it writes no row, replays nothing and
\* leaves the session unsynced; and a destroyed, unsynced session never
\* becomes synced, never raises the notification and never changes a row.
C12_EarlyDestroy ==
  /\ [](\A s \in Sessions :
          (Torn(s) /\ sess[s].initPending) => (~sess[s].synced /\ sess[s].emits = 0))
  /\ [][\A s \in Sessions :
          (Torn(s) /\ Initialize(s))
            => /\ <<updates, seq, doc>>' = <<updates, seq, doc>>
               /\ ~sess'[s].synced /\ sess'[s].emits = 0
      ]_vars
  /\ [][\A s \in Sessions :
          (Torn(s) /\ ~sess[s].synced)
            => /\ ~sess'[s].synced /\ sess'[s].emits = 0
               /\ (Initialize(s) \/ DocChange(s) \/ SelfChange(s) \/ TimerFire(s)
                   \/ FetchUpdatesCall(s)
                   \/ \E forceStore \in BOOLEAN : StoreStateCall(s, forceStore))
                    => updates' = updates
      ]_vars

\* The only session ever created was destroyed before its deferred
\* initialization, which has run since: the session is not synced and the
\* partition of the file it created is empty.
C12_Witness ==
  /\ nAttach = 1
  /\ sess["s1"].obj /\ sess["s1"].destroyed
  /\ ~sess["s1"].initPending
  /\ ~sess["s1"].synced /\ sess["s1"].emits = 0
  /\ SharedPath \in files
  /\ Count(<<SharedPath, "A">>) = 0

(* ---- C13 ---- *)
\* C13: the constructor returns a session that is not synced, has raised no
\* notification, has its initialization pending, and has neither replayed
\* (document and _dbref as handed over) nor written a row; a session becomes
\* synced, the synced notification is raised and an initial snapshot is
\* written only by a deferred initialization step, hence after the
\* constructor has returned; and the initialization of a session that is not
\* destroyed first does run and raises the notification.
C13_DeferredInitialization ==
  /\ [][\A s \in Sessions :
          (\E pre \in BOOLEAN : Attach(s, "A", SharedOpts, pre))
            => /\ sess'[s].obj /\ sess'[s].initPending
               /\ ~sess'[s].synced /\ sess'[s].emits = 0
               /\ sess'[s].dbref = 0
               /\ doc'[s] \subseteq {PreAtom}
               /\ <<updates, seq>>' = <<updates, seq>>
      ]_vars
  /\ [][\A s \in Sessions :
          (sess'[s].synced /\ ~sess[s].synced) \/ sess'[s].emits > sess[s].emits
            => Initialize(s)
      ]_vars
  /\ [][hSnaps' # hSnaps => \E s \in Sessions : Initialize(s)]_vars
  /\ [](\A s \in Sessions : sess[s].initPending => (~sess[s].synced /\ sess[s].emits = 0))
  /\ \A s \in Sessions :
       [](sess[s].initPending => <>(sess[s].emits = 1 \/ sess[s].destroyed))

\* A session has been constructed on a partition that holds a row and has not
\* been initialized yet: nothing was replayed into its document.
C13_Witness ==
  \E s \in Sessions :
    /\ Live(s) /\ sess[s].initPending
    /\ Count(Part(sess[s])) >= 1
    /\ sess[s].dbref = 0 /\ ~sess[s].synced
    /\ ~(Replay(updates, sess[s].dbPath, sess[s].name) \subseteq doc[s])

(* ---- C14 ---- *)
\* A constructor call on slot s.
AttachStep(s) ==
  \E name \in Docs, opts \in OptionSets, pre \in BOOLEAN : Attach(s, name, opts, pre)

\* C14: every session raises the synced notification at most once, and is
\* synced exactly when it has raised it; the notification is raised only by
\* the deferred initialization of a session that has not raised it yet;
\* fetchUpdates and storeState calls, manual or from the timer, neither raise
\* it nor change synced; and a synced session stays synced (until the slot is
\* given to a new session object).
C14_SyncedOnce ==
  /\ [](\A s \in Sessions :
          sess[s].emits <= 1 /\ (sess[s].synced <=> sess[s].emits = 1))
  /\ [][\A s \in Sessions :
          sess'[s].emits > sess[s].emits => (Initialize(s) /\ sess[s].emits = 0)
      ]_vars
  /\ [][\A s \in Sessions :
          (FetchUpdatesCall(s) \/ TimerFire(s)
           \/ \E forceStore \in BOOLEAN : StoreStateCall(s, forceStore))
            => /\ sess'[s].emits = sess[s].emits
               /\ sess'[s].synced = sess[s].synced
      ]_vars
  /\ [][\A s \in Sessions :
          sess[s].synced => (sess'[s].synced \/ AttachStep(s))
      ]_vars

\* The only session ever created became synced, then made a change and read
\* it back with a later fetchUpdates (manual or from the timer); it has
\* raised the notification once.
C14_Witness ==
  /\ nAttach = 1
  /\ Live("s1") /\ sess["s1"].synced /\ sess["s1"].emits = 1
  /\ hScn[Part(sess["s1"])].on /\ hScn[Part(sess["s1"])].n >= 1
  /\ sess["s1"].dbref >= 2

(* ---- C15 ---- *)
\* C15: replay is not written back. A fetchUpdates call with the default
\* callbacks inserts and deletes no row, whatever it applies to the document
\* (the notification of the replay transaction carries the session as
\* origin), and its _dbsize afterwards is the partition's row count; a change
\* of the document whose origin is the session leaves the rows, the session's
\* _dbsize and its timer as they were.
C15_ReplayNotAppended ==
  /\ [][\A s \in Sessions :
          FetchUpdatesCall(s)
            => /\ <<updates, seq>>' = <<updates, seq>>
               /\ Live(s) => sess'[s].dbsize = Count(Part(sess[s]))
      ]_vars
  /\ [][\A s \in Sessions :
          SelfChange(s)
            => /\ <<updates, seq>>' = <<updates, seq>>
               /\ sess'[s] = sess[s]
      ]_vars

\* Two live sessions of one partition hold the same one-atom document: one
\* of them made the change, the other got it by replay, both have read up to
\* the change's row, and the partition holds the snapshot and that row only.
C15_Witness ==
  \E s, t \in Sessions :
    /\ s # t
    /\ Live(s) /\ Live(t)
    /\ Part(sess[s]) = Part(sess[t])
    /\ sess[s].synced /\ sess[t].synced
    /\ doc[s] # {} /\ doc[s] = doc[t]
    /\ sess[s].dbref = 2 /\ sess[t].dbref = 2
    /\ Count(Part(sess[s])) = 2
    /\ \E r \in Rows(Part(sess[s])) : r.id = 2 /\ r.data = doc[s]

(* ---- C16 ---- *)
\* The rows of the compacted document in a file image.
DocRows(rows, name) == {r \in rows : r.docName = name}

\* C16: compaction is atomic with respect to a stop of the process. While
\* the transaction of storeState is open, the file holds for the document
\* exactly the rows it held when the transaction began and no row with a
\* newer id; a stop of the process leaves exactly those rows; the commit
\* leaves exactly one row for the document, the new snapshot with the
\* document's full state, whose id is above every earlier id. A stop outside
\* a transaction leaves the rows as they are.
C16_CompactionAtomic ==
  /\ [](tx.stage # "idle"
          => LET m == Durable(tx, updates, seq)
                 name == sess[tx.s].name
             IN /\ DocRows(m.U[tx.path], name) = DocRows(tx.before, name)
                /\ \A r \in m.U[tx.path] : r.id <= tx.seq0)
  /\ [][Crash
          => IF tx.stage = "idle"
             THEN updates' = updates
             ELSE /\ updates'[tx.path] = tx.before
                  /\ \A r \in updates'[tx.path] : r.id <= tx.seq0
      ]_vars
  /\ [][CompactCommit
          => /\ DocRows(updates'[tx.path], sess[tx.s].name)
                  = {[id |-> tx.newId, docName |-> sess[tx.s].name,
                      data |-> encodeStateAsUpdate(doc[tx.s])]}
             /\ tx.newId > tx.seq0
             /\ \A r \in tx.before : r.id < tx.newId
             /\ Durable(tx', updates', seq').U = updates'
      ]_vars

\* The transaction has inserted the snapshot and deleted the two older rows
\* of the document, and is not committed: the process may stop here.
C16_Witness ==
  /\ tx.stage = "deleted"
  /\ Cardinality(DocRows(tx.before, sess[tx.s].name)) >= 2
  /\ Cardinality(DocRows(updates[tx.path], sess[tx.s].name)) = 1

(* ---- C17 ---- *)
\* The outcome of a fetchUpdates call with the default callbacks made right
\* after the call whose outcome is r.
FetchAgain(r) == fetchUpdates(r.p, r.d, r.U, r.Q, "default")

\* The second call applied nothing and left _dbref and _dbsize as the first
\* call left them.
NothingNew(r1, r2) ==
  /\ r2.applied = 0
  /\ r2.d = r1.d
  /\ r2.p.dbref = r1.p.dbref
  /\ r2.p.dbsize = r1.p.dbsize
  /\ r2.U = r1.U

\* The second call applied exactly the snapshot row the first call wrote:
\* the document and _dbsize are as before, _dbref is the snapshot's id.
OwnSnapshotOnly(r1, r2) ==
  /\ r2.applied = 1
  /\ r2.d = r1.d
  /\ r2.p.dbref = r1.Q[r1.p.dbPath]
  /\ r2.p.dbref > r1.p.dbref
  /\ r2.p.dbsize = r1.p.dbsize
  /\ r2.U = r1.U

\* The outcome of the deferred initialization of session s run now.
InitNow(s) == initialize([sess[s] EXCEPT !.initPending = FALSE], doc[s], updates, seq)

\* The outcome of a default-callback fetchUpdates of session s run now.
FetchNow(s) == fetchUpdates(sess[s], doc[s], updates, seq, "default")

\* C17 as stated: in every reachable state and for every session, the second
\* of two consecutive fetchUpdates calls applies nothing and leaves _dbref and
\* _dbsize unchanged, also when the first call is the initialization.
C17_Original ==
  \A s \in Sessions :
    sess[s].obj
      => /\ NothingNew(FetchNow(s), FetchAgain(FetchNow(s)))
         /\ sess[s].initPending => NothingNew(InitNow(s), FetchAgain(InitNow(s)))

\* C17 amended: the second of two consecutive fetchUpdates calls applies
\* nothing and leaves _dbref and _dbsize unchanged when the first call has
\* the default callbacks or is an initialization that wrote no snapshot;
\* after an initialization that wrote the initial snapshot the next call
\* applies exactly that snapshot row, moves _dbref to its id and leaves the
\* document, the rows and _dbsize unchanged (and the call after it applies
\* nothing).
C17_FetchIdempotent ==
  \A s \in Sessions :
    sess[s].obj
      => /\ NothingNew(FetchNow(s), FetchAgain(FetchNow(s)))
         /\ sess[s].initPending
              => IF InitNow(s).wrote
                 THEN /\ OwnSnapshotOnly(InitNow(s), FetchAgain(InitNow(s)))
                      /\ NothingNew(FetchAgain(InitNow(s)),
                                    FetchAgain(FetchAgain(InitNow(s))))
                 ELSE NothingNew(InitNow(s), FetchAgain(InitNow(s)))

\* A live synced session that has read no row yet while its partition holds
\* two: its next fetchUpdates applies both, the one after it none.
C17_Witness ==
  \E s \in Sessions :
    /\ Live(s) /\ sess[s].db /\ sess[s].synced
    /\ sess[s].dbref = 0
    /\ Count(Part(sess[s])) = 2
    /\ FetchNow(s).applied = 2

(* ---- C18 ---- *)
\* The calls of one fetchUpdates are in order: the before callback, if
\* called, is the first call, the after callback is called exactly once and
\* is the last call.
HooksOrdered(ev) ==
  /\ \A i \in 1..Len(ev) : ev[i] = "before" => i = 1
  /\ Cardinality({i \in 1..Len(ev) : ev[i] = "after"}) = 1
  /\ ev[Len(ev)] = "after"

\* C18 as stated: every fetchUpdates call, of whatever session, calls its
\* callbacks in order and the after callback exactly once.
C18_Original ==
  \A s \in Sessions :
    sess[s].obj
      => /\ HooksOrdered(FetchNow(s).events)
         /\ sess[s].initPending => HooksOrdered(InitNow(s).events)

\* C18 amended: every fetchUpdates call on a session that is not destroyed
\* and whose database is open calls the before callback, if at all, before
\* any fragment is applied and before the after callback, and calls the after
\* callback exactly once, whether or not a row was read (one "apply" per row
\* read); a call on a destroyed session returns before anything is called.
C18_HooksOrdered ==
  \A s \in Sessions :
    sess[s].obj
      => IF sess[s].destroyed \/ ~sess[s].db
         THEN /\ FetchNow(s).events = <<>>
              /\ sess[s].initPending => InitNow(s).events = <<>>
         ELSE /\ HooksOrdered(FetchNow(s).events)
              /\ Len(FetchNow(s).events) >= FetchNow(s).applied + 1
              /\ sess[s].initPending
                   => /\ HooksOrdered(InitNow(s).events)
                      /\ Len(InitNow(s).events) >= InitNow(s).applied + 1

\* One session is destroyed, the other is live with two rows to read: its
\* fetchUpdates applies both and then calls the after callback.
C18_Witness ==
  \E s, t \in Sessions :
    /\ sess[t].obj /\ sess[t].destroyed
    /\ Live(s) /\ sess[s].db
    /\ FetchNow(s).events = <<"apply", "apply", "after">>

(* ---- C19 ---- *)
\* Session s has its change listener at work: registered, database open, not
\* destroyed.
Storing(s) == sess[s].obj /\ sess[s].listening /\ sess[s].db /\ ~sess[s].destroyed

\* C19: compaction is debounced. A session never has more than one timeout
\* pending, and a pending timeout is the one _storeTimeoutId names; a local
\* change that leaves _dbsize at or above the threshold leaves exactly one
\* timeout pending, whether or not one was pending before (the pending one is
\* cancelled, a new one set), and a local change below the threshold sets
\* none; when the timeout fires (one storeState(this, false)) none is pending
\* and _storeTimeoutId is null, so a burst of such changes is followed by one
\* firing.
C19_Debounce ==
  /\ [](\A s \in Sessions :
          /\ sess[s].timers <= 1
          /\ sess[s].timers = 1 => sess[s].storeTimeoutId = "armed" /\ Live(s))
  /\ [][\A s \in Sessions :
          (DocChange(s) /\ Storing(s))
            => IF sess'[s].dbsize >= PREFERRED_TRIM_SIZE
               THEN sess'[s].timers = 1 /\ sess'[s].storeTimeoutId = "armed"
               ELSE sess'[s].timers = sess[s].timers
      ]_vars
  /\ [][\A s \in Sessions :
          TimerFire(s)
            => /\ sess[s].timers = 1
               /\ sess'[s].timers = 0
               /\ sess'[s].storeTimeoutId = "null"
      ]_vars

\* A single session made two local changes at or above the threshold, no
\* timeout fired in between: three rows, one timeout pending.
C19_Witness ==
  \E s \in Sessions :
    /\ nAttach = 1
    /\ Storing(s) /\ sess[s].synced
    /\ sess[s].dbsize = PREFERRED_TRIM_SIZE + 1
    /\ sess[s].timers = 1 /\ sess[s].storeTimeoutId = "armed"
    /\ LET q == Part(sess[s])
       IN hScn[q].on /\ hScn[q].n = 2 /\ ~hScn[q].fired /\ Count(q) = 3

(* ---- C20 ---- *)
\* destroy() on session s, called directly or by the document's "destroy".
DestroyStep(s) == Destroy(s) \/ DocDestroy(s)

\* C20: destroy, called directly or through the document's destroy
\* notification, leaves the session without listener, without pending
\* timeout, destroyed and with its database closed, and changes no row; a
\* destroyed session has no listener and no pending timeout in any later
\* state, and no change of its document (local or self-origin) and no timer
\* step of it inserts or deletes a row; destroy on a destroyed session
\* changes neither the session nor the store.
C20_DestroyStops ==
  /\ [][\A s \in Sessions :
          DestroyStep(s)
            => /\ ~sess'[s].listening
               /\ sess'[s].timers = 0
               /\ sess'[s].destroyed /\ ~sess'[s].db
               /\ <<updates, seq, custom, files>>' = <<updates, seq, custom, files>>
               /\ sess[s].destroyed => sess'[s] = sess[s]
      ]_vars
  /\ [](\A s \in Sessions :
          (sess[s].obj /\ sess[s].destroyed)
            => /\ ~sess[s].listening
               /\ sess[s].timers = 0
               /\ ~ENABLED TimerFire(s)
               /\ destroy(sess[s]) = sess[s])
  /\ [][\A s \in Sessions :
          (sess[s].destroyed /\ (DocChange(s) \/ SelfChange(s) \/ TimerFire(s)))
            => /\ <<updates, seq>>' = <<updates, seq>>
               /\ sess'[s] = sess[s]
      ]_vars

\* A session was destroyed while its timeout was pending, and its document
\* changed afterwards: the document holds two atoms, the partition only the
\* snapshot and the row of the first.
C20_Witness ==
  \E s \in Sessions :
    /\ sess[s].obj /\ sess[s].destroyed
    /\ sess[s].storeTimeoutId = "cleared"
    /\ sess[s].timers = 0
    /\ Cardinality(doc[s]) = 2
    /\ Count(Part(sess[s])) = 2

(* ---- C21 ---- *)
\* The rows of table `custom` of file path for (name, key).
Entry(C, path, name, key) == {e \in C[path] : e.docName = name /\ e.key = key}

\* What get(key) of an open session on (path, name) returns.
StoredValue(C, path, name, key) ==
  get([NoSession EXCEPT !.obj = TRUE, !.db = TRUE, !.dbPath = path, !.name = name], C, key)

\* Session s can read and write metadata: not destroyed, database open.
Open(s) == Live(s) /\ sess[s].db

\* C21 as stated: get(k) returns the value v handed to the last set(k, v),
\* whatever v is; what get(k) returns for a document changes only by a set or
\* del of k on that docName; a session opened later on the same docName gets
\* the value stored for it, wherever it was stored.
C21_Original ==
  /\ [][\A s \in Sessions, k \in Keys, v \in AnyValues :
          (Set(s, k, v) /\ Open(s)) => get(sess'[s], custom', k) = v
      ]_vars
  /\ [][\A path \in Paths, name \in Docs, k \in Keys :
          StoredValue(custom', path, name, k) # StoredValue(custom, path, name, k)
            => \E t \in Sessions :
                 /\ Open(t) /\ sess[t].name = name
                 /\ (\E v \in AnyValues : Set(t, k, v)) \/ Del(t, k)
      ]_vars
  /\ [][\A s \in Sessions, k \in Keys, path \in Paths :
          (AttachStep(s) /\ sess'[s].obj /\ Entry(custom, path, sess'[s].name, k) # {})
            => get(sess'[s], custom', k) = StoredValue(custom, path, sess'[s].name, k)
      ]_vars

\* C21 amended: table `custom` holds at most one row per (docName, key) in
\* every file; after set(k, v) on an open session get(k) returns
\* JSON.parse(JSON.stringify(v)), which is v for every value JSON represents
\* (null for NaN); after del(k) get(k) returns undefined; what get(k) returns
\* for a partition changes only by a set or del of k by a session of that
\* partition or by clearDocument of the docName; and a session opened later
\* gets the value stored for its docName in the file it opens.
C21_MetadataRoundTrip ==
  /\ [](\A path \in Paths, name \in Docs, k \in Keys :
          Cardinality(Entry(custom, path, name, k)) <= 1)
  /\ [][\A s \in Sessions, k \in Keys, v \in AnyValues :
          (Set(s, k, v) /\ Open(s))
            => /\ get(sess'[s], custom', k) = JSONparseOrRaw(JSONstringify(v))
               /\ v # NaN => get(sess'[s], custom', k) = v
               /\ v = NaN => get(sess'[s], custom', k) = Null
      ]_vars
  /\ [][\A s \in Sessions, k \in Keys :
          (Del(s, k) /\ Open(s)) => get(sess'[s], custom', k) = Undefined
      ]_vars
  /\ [][\A path \in Paths, name \in Docs, k \in Keys :
          StoredValue(custom', path, name, k) # StoredValue(custom, path, name, k)
            => \/ \E t \in Sessions :
                    /\ Open(t) /\ Part(sess[t]) = <<path, name>>
                    /\ (\E v \in AnyValues : Set(t, k, v)) \/ Del(t, k)
               \/ \E loc \in {"dbPath", "dir"} : ClearDocument(name, loc)
      ]_vars
  /\ [][\A s \in Sessions, k \in Keys :
          (AttachStep(s) /\ sess'[s].obj)
            => get(sess'[s], custom', k)
                 = StoredValue(custom, sess'[s].dbPath, sess'[s].name, k)
      ]_vars

\* The second session opened on the partition reads the number 42 stored
\* there; the first session is destroyed.
C21_Witness ==
  \E s, t \in Sessions :
    /\ s # t
    /\ nAttach = 2
    /\ Open(s) /\ sess[t].obj /\ sess[t].destroyed
    /\ Part(sess[s]) = Part(sess[t])
    /\ get(sess[s], custom, "k") = [type |-> "number", text |-> "42"]
    /\ get(sess[t], custom, "k") = Undefined

C23_CompactionKeepsContent ==
  [][\A q \in Partitions :
       /\ \A r \in Rows(q) \ RowsNext(q) :
            \E n \in RowsNext(q) \ Rows(q) : r.data \subseteq n.data
       /\ Replay(updates, q[1], q[2]) \subseteq Replay(updates', q[1], q[2])
   ]_vars

\* Session t appended a change (its count reached the threshold, its timeout
\* is pending) and session s, which had not read it, compacted: the one row
\* left holds t's change, and s's document holds it too.
C23_Witness ==
  \E s, t \in Sessions :
    /\ s # t
    /\ Open(s) /\ Open(t)
    /\ Part(sess[s]) = Part(sess[t])
    /\ sess[t].dbsize = 2 /\ sess[t].timers = 1 /\ sess[t].dbref < 3
    /\ sess[s].dbsize = 1 /\ sess[s].timers = 0
    /\ doc[t] # {} /\ doc[s] = doc[t]
    /\ Rows(Part(sess[s]))
         = {[id |-> 3, docName |-> sess[s].name, data |-> encodeStateAsUpdate(doc[t])]}

(* ---- C24 ---- *)
\* C24: with two sessions on one partition in different processes, the
\* compaction transaction of a session deletes no row whose content is not
\* contained in the snapshot row the transaction inserts.
C24_NoRowLostAcrossProcesses ==
  [][CompactTransaction
       => LET q == Part(sess[tx.s])
          IN \A r \in Rows(q) \ RowsNext(q) :
               \A n \in RowsNext(q) : r.data \subseteq n.data
   ]_vars

(* ---- C25 ---- *)
\* Session a has just compacted partition q: a storeState of it (manual or
\* by its timer) left a single row with a new id.
Compacted(a, q) ==
  /\ Open(a) /\ Part(sess[a]) = q
  /\ seq'[q[1]] = seq[q[1]] + 1
  /\ RowsNext(q) = {[id |-> seq'[q[1]], docName |-> q[2],
                     data |-> encodeStateAsUpdate(doc'[a])]}
  /\ (\E forceStore \in BOOLEAN : StoreStateCall(a, forceStore)) \/ TimerFire(a)

\* The outcome of a fetchUpdates of session b called in the next state.
FetchNext(b) == fetchUpdates(sess'[b], doc'[b], updates', seq', "default")

\* C25: when session a has compacted the partition, the snapshot's id is
\* above the cursor of every other open session b of the partition, and a
\* fetchUpdates of b called then applies the snapshot: b's document
\* contains a's document and b's _dbref is the snapshot's id. In every state
\* a fetchUpdates of an open session leaves its document containing the
\* replay of its partition and its _dbref at or above every row's id.
C25_SnapshotReachesOthers ==
  /\ [][\A a, b \in Sessions :
          (a # b /\ Open(b) /\ Part(sess[b]) = Part(sess[a]) /\ Compacted(a, Part(sess[a])))
            => /\ sess'[b].dbref < seq'[sess[a].dbPath]
               /\ FetchNext(b).applied = 1
               /\ FetchNext(b).p.dbref = seq'[sess[a].dbPath]
               /\ doc'[a] \subseteq FetchNext(b).d
      ]_vars
  /\ [](\A b \in Sessions :
          Open(b)
            => /\ Replay(updates, sess[b].dbPath, sess[b].name) \subseteq FetchNow(b).d
               /\ \A r \in Rows(Part(sess[b])) : r.id <= FetchNow(b).p.dbref)

\* Session a compacted the partition to one row with id 3 while session b's
\* cursor stands at 2, the row it has read last; b has not fetched since.
C25_Witness ==
  \E a, b \in Sessions :
    /\ a # b
    /\ Open(a) /\ Open(b)
    /\ Part(sess[a]) = Part(sess[b])
    /\ sess[b].dbref = 2
    /\ sess[a].dbsize = 1
    /\ doc[a] # {}
    /\ Rows(Part(sess[a]))
         = {[id |-> 3, docName |-> sess[a].name, data |-> encodeStateAsUpdate(doc[a])]}
    /\ FetchNow(b).p.dbref = 3

C27_LocalChangeAppends ==
  [][\A s \in Sessions :
       (Live(s) /\ DocChange(s))
         => LET q == Part(sess[s])
                row == [id |-> seq[q[1]] + 1, docName |-> q[2], data |-> {nextAtom'}]
            IN /\ row \notin updates[q[1]]
               /\ updates' = [updates EXCEPT ![q[1]] = @ \cup {row}]
               /\ Cardinality(RowsNext(q)) = Count(q) + 1
               /\ sess'[s].dbsize = sess[s].dbsize + 1
               /\ sess'[s].dbref = sess[s].dbref
               /\ sess'[s].synced = sess[s].synced
               /\ doc'[s] = doc[s] \cup {nextAtom'}
   ]_vars

\* A session whose initialization is still pending made a change: its
\* partition holds the row of the change, its _dbsize is 1.
C27_Witness ==
  \E s \in Sessions :
    /\ Live(s) /\ sess[s].initPending /\ ~sess[s].synced
    /\ doc[s] # {}
    /\ sess[s].dbsize = 1 /\ sess[s].dbref = 0
    /\ Rows(Part(sess[s])) = {[id |-> 1, docName |-> sess[s].name, data |-> doc[s]]}

(* ---- C28 ---- *)
\* C28: a session that makes no local change and on which storeState is not
\* called never compacts. Its initialization, its fetchUpdates calls and the
\* changes it applies itself set no timeout and change no row, except that
\* the initialization inserts the initial snapshot into an empty partition;
\* a timeout is only ever set by a local change of the session, and rows are
\* only ever deleted by a storeState call or a timeout of a session.
C28_ReaderNeverCompacts ==
  /\ [][\A s \in Sessions :
          (Live(s) /\ (Initialize(s) \/ FetchUpdatesCall(s) \/ SelfChange(s)))
            => LET q == Part(sess[s])
               IN /\ sess'[s].timers = sess[s].timers
                  /\ sess'[s].storeTimeoutId = sess[s].storeTimeoutId
                  /\ \/ <<updates, seq>>' = <<updates, seq>>
                     \/ /\ Initialize(s) /\ Count(q) = 0
                        /\ updates' = [updates EXCEPT ![q[1]] =
                             @ \cup {[id |-> seq[q[1]] + 1, docName |-> q[2],
                                      data |-> encodeStateAsUpdate(doc[s])]}]
      ]_vars
  /\ [][\A s \in Sessions :
          (sess[s].obj /\ sess'[s].timers > sess[s].timers) => DocChange(s)
      ]_vars
  /\ [][\A q \in Partitions :
          (Rows(q) \ RowsNext(q) # {})
            => \E s \in SessionsOn(q) :
                 \/ \E forceStore \in BOOLEAN : StoreStateCall(s, forceStore)
                 \/ sess[s].timers > 0 /\ TimerFire(s)
      ]_vars

\* Session t opened the empty partition and made two changes; session s has
\* read all three rows, its _dbsize is 3, above the threshold, and it has no
\* timeout.
C28_Witness ==
  \E s, t \in Sessions :
    /\ s # t
    /\ Open(s) /\ Open(t)
    /\ Part(sess[s]) = Part(sess[t])
    /\ sess[t].dbsize = 3 /\ sess[t].dbref = 0 /\ sess[t].timers = 1
    /\ sess[s].synced /\ sess[s].dbsize = 3 /\ sess[s].dbref = 3
    /\ sess[s].timers = 0 /\ sess[s].storeTimeoutId = "null"
    /\ Count(Part(sess[s])) = 3
    /\ doc[s] = doc[t]

(* ---- C29 ---- *)
\* The last timeout of open session s has run and has not reset
\* _storeTimeoutId: its storeState threw.
AfterFailure(s) ==
  Open(s) /\ sess[s].timers = 0 /\ sess[s].storeTimeoutId = "armed"

\* C29: when the compaction of a timer-driven storeState fails, the rows and
\* the id counters are those before the attempt and no timeout of the
\* session is pending afterwards (nothing retries); the session still
\* listens with _dbsize at or above the threshold, so its next local change
\* appends its row and leaves one timeout pending.
C29_FailedCompaction ==
  /\ [][\A s \in Sessions :
          TimerFireFails(s)
            => /\ <<updates, seq>>' = <<updates, seq>>
               /\ sess'[s].timers = 0
               /\ AfterFailure(s)'
      ]_vars
  /\ [](\A s \in Sessions :
          AfterFailure(s)
            => /\ sess[s].listening
               /\ sess[s].dbsize >= PREFERRED_TRIM_SIZE
               /\ ~ENABLED TimerFire(s))
  /\ [][\A s \in Sessions :
          (AfterFailure(s) /\ DocChange(s))
            => /\ sess'[s].timers = 1
               /\ sess'[s].storeTimeoutId = "armed"
               /\ Cardinality(RowsNext(Part(sess[s]))) = Count(Part(sess[s])) + 1
      ]_vars

\* The compaction started by the only session's timeout failed: the two rows
\* are still there, no timeout is pending, the field holds the old id.
C29_Witness ==
  \E s \in Sessions :
    /\ nAttach = 1
    /\ AfterFailure(s)
    /\ sess[s].dbsize = 2
    /\ Count(Part(sess[s])) = 2

(* ---- C30 ---- *)
\* A step in which session b runs fetchUpdates.
FetchStep(b) ==
  \/ Initialize(b)
  \/ FetchUpdatesCall(b)
  \/ \E forceStore \in BOOLEAN : StoreStateCall(b, forceStore)
  \/ TimerFire(b)

\* A step of session b: its constructor, an operation called on it, a change
\* of its document or its timeout.
OwnStep(b) ==
  \/ AttachStep(b)
  \/ FetchStep(b)
  \/ DocChange(b) \/ SelfChange(b)
  \/ Destroy(b) \/ DocDestroy(b)

\* C30: the fields of a session (among them _dbref, _dbsize, the timeout)
\* and its document change only in steps of that session; the document of
\* an attached session changes only by a change made to it, which adds that
\* change alone, or inside a fetchUpdates of the session itself
\* (initialization, manual fetchUpdates, storeState by hand or by the
\* timeout), which adds what the partition's rows hold.
C30_SessionStateIsOwn ==
  /\ [][\A b \in Sessions :
          (sess'[b] # sess[b] \/ doc'[b] # doc[b]) => OwnStep(b)
      ]_vars
  /\ [][\A b \in Sessions :
          (sess[b].obj /\ doc'[b] # doc[b] /\ ~AttachStep(b))
            => \/ /\ DocChange(b) \/ SelfChange(b)
                  /\ doc'[b] = doc[b] \cup {nextAtom'}
               \/ /\ FetchStep(b)
                  /\ doc'[b] = FetchNow(b).d
                  /\ doc'[b] \subseteq
                       doc[b] \cup Replay(updates, sess[b].dbPath, sess[b].name)
      ]_vars

\* Session a appended a change to the partition session b had opened;
\* b's document, _dbref and _dbsize are as its initialization left them, and
\* its next fetchUpdates would bring a's change.
C30_Witness ==
  \E a, b \in Sessions :
    /\ a # b
    /\ Open(a) /\ Open(b)
    /\ Part(sess[a]) = Part(sess[b])
    /\ sess[b].synced /\ sess[b].dbsize = 1 /\ sess[b].dbref = 0 /\ doc[b] = {}
    /\ doc[a] # {} /\ sess[a].dbsize = 2
    /\ Count(Part(sess[a])) = 2
    /\ FetchNow(b).d = doc[a]

(* ---- C31 ---- *)
\* The sequence of rows is in strictly ascending id order.
Ascending(rows) ==
  \A i, j \in 1..Len(rows) : i < j => rows[i].id < rows[j].id

\* This step deletes the file at path.
Unlinked(path) == path \in files /\ path \notin files'

\* C31: in one database file, shared by all its partitions, no two rows
\* have the same id and every id is at most the file's AUTOINCREMENT mark;
\* as long as the file is not deleted, a step leaves each row it keeps as it
\* was (same id, docName and data) and gives a row it inserts an id above
\* every id assigned in the file before, also above the ids of rows that a
\* compaction, clearDocument or clearData has deleted; and the scan that
\* replay applies front to back returns exactly the partition's rows above
\* the cursor, in strictly ascending id order.
C31_RowIds ==
  /\ [](\A path \in Paths :
          /\ \A r1, r2 \in updates[path] : r1.id = r2.id => r1 = r2
          /\ \A r \in updates[path] : r.id \in 1..seq[path])
  /\ [](\A q \in Partitions, ref \in 0..MaxId :
          LET rows == ScanSince(updates, q[1], q[2], ref)
          IN /\ Ascending(rows)
             /\ {rows[i] : i \in 1..Len(rows)} = {r \in Rows(q) : r.id > ref})
  /\ [][\A path \in Paths :
          ~Unlinked(path)
            => /\ seq'[path] >= seq[path]
               /\ \A r \in updates'[path] :
                    \/ r \in updates[path]
                    \/ r.id \in (seq[path] + 1)..seq'[path]
      ]_vars

\* Rows of document A in the shared file were erased by clearDocument while
\* document B kept its row there, and a row inserted for A afterwards has an
\* id above the erased ones and above B's.
C31_Witness ==
  /\ hErased = "clearDocument"
  /\ SharedPath \in files
  /\ \E a \in RowsOf(updates, SharedPath, "A"), b \in RowsOf(updates, SharedPath, "B") :
       /\ a.id = seq[SharedPath]
       /\ b.id < a.id
       /\ a.id = Cardinality(updates[SharedPath]) + 1

(* ---- C32 ---- *)
\* The rows of the partition of session s that its cursor has passed.
Passed(s) == {r \in Rows(Part(sess[s])) : r.id <= sess[s].dbref}

\* C32: a session is constructed with _dbref 0; afterwards no step lowers
\* its _dbref; in every reachable state the _dbref of a session whose
\* database file exists is at most the largest id assigned in that file, and
\* the data of every row of its partition with id <= _dbref is contained in
\* its document.
C32_Cursor ==
  /\ [](\A s \in Sessions :
          sess[s].obj
            => /\ sess[s].dbref >= 0
               /\ sess[s].dbPath \in files => sess[s].dbref <= seq[sess[s].dbPath]
               /\ \A r \in Passed(s) : r.data \subseteq doc[s])
  /\ [][\A s \in Sessions :
          IF sess'[s].dbref = sess[s].dbref /\ sess'[s].obj = sess[s].obj THEN TRUE
          ELSE IF AttachStep(s) THEN sess'[s].obj => sess'[s].dbref = 0
          ELSE sess'[s].dbref > sess[s].dbref
      ]_vars

\* Session b has read the partition up to a row written by session a, so
\* its cursor is above 0 and on a row of non-empty data, and a has since
\* written a row beyond b's cursor whose data b's document does not hold.
C32_Witness ==
  \E a, b \in Sessions :
    /\ a # b
    /\ Open(a) /\ Open(b)
    /\ Part(sess[a]) = Part(sess[b])
    /\ sess[b].dbref > 0
    /\ \E r \in Passed(b) : r.id = sess[b].dbref /\ r.data # {}
    /\ \E r \in Rows(Part(sess[b])) :
         r.id > sess[b].dbref /\ ~(r.data \subseteq doc[b])

(* ---- C33 ---- *)
\* Session s is the only session attached to its partition that is not
\* destroyed.
Alone(s) ==
  \A t \in Sessions \ {s} : ~(Live(t) /\ Part(sess[t]) = Part(sess[s]))

\* _dbsize of session s is the number of rows its partition holds.
Exact(s) == sess[s].dbsize = Count(Part(sess[s]))

\* C33: the step in which a session becomes synced leaves its _dbsize equal
\* to the number of rows of its partition; and while a synced, non-destroyed
\* session is the only such session on its partition, every step (a local
\* change, a change of its own origin, fetchUpdates, storeState, the timer
\* firing, operations on destroyed sessions) keeps the two equal. Hence they
\* are equal in every state from the session becoming synced until it is
\* destroyed or another session is attached to the partition.
C33_RowCountExact ==
  /\ [][\A s \in Sessions :
          (~sess[s].synced /\ sess'[s].synced /\ Live(s)') => Exact(s)'
      ]_vars
  /\ [][\A s \in Sessions :
          ( /\ Live(s) /\ sess[s].synced /\ Alone(s) /\ Exact(s)
            /\ Live(s)' /\ sess'[s].synced /\ Alone(s)' )
            => Exact(s)'
      ]_vars

\* A synced session, alone on its partition, has stored its changes and
\* compacted them: the partition holds the one snapshot row, whose id shows
\* that rows were deleted, and _dbsize is 1.
C33_Witness ==
  \E s \in Sessions :
    /\ Live(s) /\ sess[s].synced /\ Alone(s)
    /\ doc[s] # {}
    /\ sess[s].dbsize = 1
    /\ \E r \in Rows(Part(sess[s])) :
         Rows(Part(sess[s])) = {r} /\ r.id > 2 /\ r.data = doc[s]
====
